---- MODULE Spec2Model ----
(***************************************************************************)
(* A model of the NullScript transpiler: the syntax validator and the      *)
(* forward (dialect -> JavaScript) rewrite pipeline, in the two versions   *)
(* the repository carries:                                                 *)
(*   - src/compiler/transpiler/mod.rs  (dialect run, fixed, ...)           *)
(*   - src/transpiler.rs               (dialect feels, definitely, ...);   *)
(*     its definitions carry the suffix _core, after core/keywords.rs      *)
(*                                                                         *)
(* Text is a sequence of tokens.  A token is either one non-word character *)
(* (a space, a newline, a punctuation character) or a maximal run of word  *)
(* characters (\w+: an identifier, a keyword, a number).  === is the       *)
(* three tokens "=", "=", "=";  a 4-space indent is four " " tokens.  Two  *)
(* adjacent word tokens read as one word, exactly as their characters      *)
(* would.  Every regular expression of the source is a sequence of pattern *)
(* elements matched leftmost-first with greedy runs and backtracking, as   *)
(* the regex crate matches it.                                             *)
(***************************************************************************)
EXTENDS Integers, Sequences, FiniteSets, TLC

VARIABLES
    source,         \* the text handed to the function
    call,           \* the function called on it
    pc,             \* "called" before the call returns, "returned" after
    calls,          \* calls made on the source so far
    function_order, \* iteration order of the transpiler's get_function_keywords map
    verdict,        \* the Ok or the Err the call returned
    output,         \* what transpile returned, latest call
    previous,       \* what the call of transpile before the latest returned
    report,         \* the ConversionReport of analyze_conversion_quality
    files,          \* the file system: the content of every file there is
    dirs,           \* the directories there are
    tasks,          \* the commands and calls running on the file system
    watcher         \* the TerminalWatcher of the watch mode

vars == <<source, call, pc, calls, function_order, verdict, output, previous, report,
          files, dirs, tasks, watcher>>

\* no watcher has been started
NoWatcher == [change_receiver |-> <<>>, last_changes |-> <<>>]

(***************************************************************************)
(* Characters and words                                                    *)
(***************************************************************************)
Ws == {" ", "\n"}

Punct == {"(", ")", "{", "}", "[", "]", ";", ",", ".", ":", "=", "!", "<", ">",
          "&", "|", "/", "*", "\"", "+", "-"}

Digits == {"0", "1", "2"}

IsWs(t) == t \in Ws

\* a maximal run of \w characters
IsWord(t) == t \notin Ws /\ t \notin Punct

\* a word that [a-zA-Z_$] can start
IsIdentStart(t) == IsWord(t) /\ t \notin Digits

(***************************************************************************)
(* Pattern elements                                                        *)
(***************************************************************************)
El(k, t, s, n, g) == [k |-> k, t |-> t, s |-> s, n |-> n, g |-> g]

Lit(t)     == El("lit", t, {}, 0, 0)       \* the token t
One(s)     == El("one", "", s, 0, 0)       \* one token of s: [=,)]  (a|b|c)
WB         == El("wb", "", {}, 0, 0)       \* \b
Bol        == El("bol", "", {}, 0, 0)      \* ^ under (?m)
Bot        == El("bot", "", {}, 0, 0)      \* ^ without (?m): start of text
Sp(n)      == El("ws", "", {}, n, 0)       \* \s* (n=0)  \s+ (n=1)  \s{4,} (n=4)
NotIn(s, n) == El("not", "", s, n, 0)      \* [^...]* (n=0)  [^...]+ (n=1)
In(s)      == El("in", "", s, 0, 0)        \* [...]*  over words, spaces and s
Id         == El("id", "", {}, 0, 0)       \* [a-zA-Z_$][\w$]*
Wd         == El("w", "", {}, 0, 0)        \* \w+
Path       == El("path", "", {}, 0, 0)     \* Id(?:\.Id)*
OptIdx     == El("optidx", "", {}, 0, 0)   \* (?:\[[^\]]+\])?
OptGen     == El("optgen", "", {}, 0, 0)   \* (?:<[^>]*>)?
Rep(s, n)  == El("rep", "", s, n, 0)       \* [...]{n,} over the tokens of s:  +
Open(g)    == El("open", "", {}, 0, g)     \* ( of capture group g
Close(g)   == El("close", "", {}, 0, g)    \* ) of capture group g

NoCaps == [g \in 1..4 |-> <<0, 0>>]

Fail == [ok |-> FALSE, end |-> 0, caps |-> NoCaps]

\* does the run element e take the token t
Accepts(e, t) ==
    CASE e.k = "ws"  -> IsWs(t)
      [] e.k = "not" -> t \notin e.s
      [] e.k = "in"  -> IsWord(t) \/ IsWs(t) \/ t \in e.s
      [] e.k = "rep" -> t \in e.s
      [] OTHER       -> IsWord(t)

RECURSIVE RunLen(_, _, _)
RunLen(e, txt, i) ==
    IF i <= Len(txt) /\ Accepts(e, txt[i]) THEN 1 + RunLen(e, txt, i + 1) ELSE 0

IsWordAt(txt, i) == i >= 1 /\ i <= Len(txt) /\ IsWord(txt[i])

\* length of Id(?:\.Id)* at i, 0 when there is none
RECURSIVE PathLen(_, _)
PathLen(txt, i) ==
    IF i <= Len(txt) /\ IsIdentStart(txt[i])
    THEN LET n == RunLen(Wd, txt, i)
         IN  IF i + n <= Len(txt) /\ txt[i + n] = "."
                /\ PathLen(txt, i + n + 1) > 0
             THEN n + 1 + PathLen(txt, i + n + 1)
             ELSE n
    ELSE 0

\* length of \[[^\]]+\] at i, 0 when there is none
IdxLen(txt, i) ==
    IF i <= Len(txt) /\ txt[i] = "["
    THEN LET n == RunLen(NotIn({"]"}, 1), txt, i + 1)
         IN  IF n >= 1 /\ i + 1 + n <= Len(txt) /\ txt[i + 1 + n] = "]"
             THEN n + 2 ELSE 0
    ELSE 0

\* length of <[^>]*> at i, 0 when there is none
GenLen(txt, i) ==
    IF i <= Len(txt) /\ txt[i] = "<"
    THEN LET n == RunLen(NotIn({">"}, 0), txt, i + 1)
         IN  IF i + 1 + n <= Len(txt) /\ txt[i + 1 + n] = ">" THEN n + 2 ELSE 0
    ELSE 0

(***************************************************************************)
(* Match(pat, txt, j, i, caps): the match of pat[j..] at position i of txt *)
(* that the regex crate finds (greedy, first alternative that lets the     *)
(* rest match), or Fail.                                                   *)
(***************************************************************************)
RECURSIVE Match(_, _, _, _, _)
RECURSIVE Shrink(_, _, _, _, _, _, _)

\* the first of two alternatives that matches
OrElse(r, alternative) == IF r.ok THEN r ELSE alternative

\* a run of len tokens at i, then the rest; on failure the run gives one back
Shrink(pat, txt, j, i, caps, len, min) ==
    IF len < min THEN Fail
    ELSE OrElse(Match(pat, txt, j + 1, i + len, caps),
                Shrink(pat, txt, j, i, caps, len - 1, min))

Match(pat, txt, j, i, caps) ==
    IF j > Len(pat) THEN [ok |-> TRUE, end |-> i, caps |-> caps]
    ELSE LET e == pat[j] IN
      CASE e.k = "lit" ->
             IF i <= Len(txt) /\ txt[i] = e.t
             THEN Match(pat, txt, j + 1, i + 1, caps) ELSE Fail
        [] e.k = "one" ->
             IF i <= Len(txt) /\ txt[i] \in e.s
             THEN Match(pat, txt, j + 1, i + 1, caps) ELSE Fail
        [] e.k = "wb" ->
             IF IsWordAt(txt, i - 1) # IsWordAt(txt, i)
             THEN Match(pat, txt, j + 1, i, caps) ELSE Fail
        [] e.k = "bol" ->
             IF i = 1 \/ (i - 1 <= Len(txt) /\ txt[i - 1] = "\n")
             THEN Match(pat, txt, j + 1, i, caps) ELSE Fail
        [] e.k = "bot" ->
             IF i = 1 THEN Match(pat, txt, j + 1, i, caps) ELSE Fail
        [] e.k = "open" ->
             Match(pat, txt, j + 1, i, [caps EXCEPT ![e.g] = <<i, i>>])
        [] e.k = "close" ->
             Match(pat, txt, j + 1, i, [caps EXCEPT ![e.g] = <<caps[e.g][1], i>>])
        [] e.k \in {"ws", "not", "in", "rep"} ->
             Shrink(pat, txt, j, i, caps, RunLen(e, txt, i), e.n)
        [] e.k = "id" ->
             IF i <= Len(txt) /\ IsIdentStart(txt[i])
             THEN Match(pat, txt, j + 1, i + RunLen(e, txt, i), caps) ELSE Fail
        [] e.k = "w" ->
             IF i <= Len(txt) /\ IsWord(txt[i])
             THEN Match(pat, txt, j + 1, i + RunLen(e, txt, i), caps) ELSE Fail
        [] e.k = "path" ->
             IF PathLen(txt, i) > 0
             THEN Match(pat, txt, j + 1, i + PathLen(txt, i), caps) ELSE Fail
        [] e.k = "optidx" ->
             OrElse(IF IdxLen(txt, i) > 0
                    THEN Match(pat, txt, j + 1, i + IdxLen(txt, i), caps)
                    ELSE Fail,
                    Match(pat, txt, j + 1, i, caps))
        [] e.k = "optgen" ->
             OrElse(IF GenLen(txt, i) > 0
                    THEN Match(pat, txt, j + 1, i + GenLen(txt, i), caps)
                    ELSE Fail,
                    Match(pat, txt, j + 1, i, caps))
        [] OTHER -> Fail

MatchAt(pat, txt, i) == Match(pat, txt, 1, i, NoCaps)

\* Regex::is_match
is_match(pat, txt) == \E i \in 1..(Len(txt) + 1) : MatchAt(pat, txt, i).ok

\* the text of capture group g of the match r
Group(txt, r, g) == SubSeq(txt, r.caps[g][1], r.caps[g][2] - 1)

(***************************************************************************)
(* Replacement strings.  T(t) is the literal token t and G(g) is $g.     *)
(* The regex crate reads the longest name after $: in "$1function ..."   *)
(* the reference is to a group named 1function, which no pattern has, so   *)
(* it expands to nothing: NoGroup.                                         *)
(***************************************************************************)
T(t) == [g |-> 0, t |-> t]
G(g) == [g |-> g, t |-> ""]
NoGroup == [g |-> -1, t |-> ""]

RECURSIVE Expand(_, _, _, _)
Expand(tmpl, txt, r, k) ==
    IF k > Len(tmpl) THEN <<>>
    ELSE (IF tmpl[k].g = 0 THEN <<tmpl[k].t>>
          ELSE IF tmpl[k].g < 0 THEN <<>>
          ELSE Group(txt, r, tmpl[k].g))
         \o Expand(tmpl, txt, r, k + 1)

\* Regex::replace_all: non-overlapping matches, leftmost first
RECURSIVE ReplaceFrom(_, _, _, _)
RECURSIVE ReplaceMatch(_, _, _, _, _)

\* r is the outcome of matching at i
ReplaceMatch(pat, tmpl, txt, i, r) ==
    IF r.ok /\ r.end > i
    THEN Expand(tmpl, txt, r, 1) \o ReplaceFrom(pat, tmpl, txt, r.end)
    ELSE <<txt[i]>> \o ReplaceFrom(pat, tmpl, txt, i + 1)

ReplaceFrom(pat, tmpl, txt, i) ==
    IF i > Len(txt) THEN <<>>
    ELSE ReplaceMatch(pat, tmpl, txt, i, MatchAt(pat, txt, i))

replace_all(pat, tmpl, txt) == ReplaceFrom(pat, tmpl, txt, 1)

Apply(rx, txt) == replace_all(rx.pat, rx.tmpl, txt)

\* the passes rxs[k..] in their order; a pass leaves an empty text empty
RECURSIVE ApplyAll(_, _, _)
ApplyAll(rxs, txt, k) ==
    IF k > Len(rxs) \/ Len(txt) = 0 THEN txt
    ELSE ApplyAll(rxs, Apply(rxs[k], txt), k + 1)

\* a replacement string without group references
Lits(toks) == [i \in DOMAIN toks |-> T(toks[i])]

\* pieces the declaration patterns share
Name(g)  == <<Open(g), Id, Close(g)>>                          \* ([a-zA-Z_$][\w$]*)
Args(g)  == <<Lit("("), Open(g), NotIn({")"}, 0), Close(g), Lit(")")>>  \* \(([^)]*)\)
NoArgs   == <<Lit("("), Sp(0), Lit(")")>>                      \* \(\s*\)
Brace    == <<Sp(0), Lit("{")>>                                \* \s*\{
Indent(g) == <<Open(g), Sp(4), Close(g)>>                      \* (\s{4,})

(***************************************************************************)
(* language::keywords::KEYWORDS, the table of compiler/transpiler/mod.rs.  *)
(* The file that defines it is not among the sources; the pairs below are  *)
(* the ones its users name: get_keyword_documentation (completion.rs), the *)
(* tests of mod.rs and the skip list of transpile (run, remove).           *)
(***************************************************************************)
KEYWORDS == <<
    <<"run", <<"function">>>>,
    <<"fixed", <<"const">>>>,
    <<"whatever", <<"if">>>>,
    <<"otherwise", <<"else">>>>,
    <<"since", <<"for">>>>,
    <<"when", <<"while">>>>,
    <<"test", <<"try">>>>,
    <<"grab", <<"catch">>>>,
    <<"atLast", <<"finally">>>>,
    <<"fresh", <<"new">>>>,
    <<"model", <<"class">>>>,
    <<"use", <<"import">>>>,
    <<"share", <<"export">>>>,
    <<"later", <<"async">>>>,
    <<"hold", <<"await">>>>,
    <<"remove", <<"delete">>>>,
    <<"speak", <<"console">>>>,
    <<"maths", <<"Math">>>>,
    <<"yes", <<"true">>>>,
    <<"no", <<"false">>>>,
    <<"is", <<"=", "=", "=">>>>,
    <<"isnt", <<"!", "=", "=">>>>,
    <<"and", <<"&", "&">>>>,
    <<"or", <<"|", "|">>>>,
    <<"not", <<"!">>>> >>

(***************************************************************************)
(* NullScriptTranspiler::transpile of compiler/transpiler/mod.rs: the      *)
(* passes, in the order the function applies them.                         *)
(***************************************************************************)
class_decl_regex ==
    [pat  |-> <<Lit("model"), Sp(1)>> \o Name(1) \o Brace,
     tmpl |-> <<T("class"), T(" "), G(1), T(" "), T("{")>>]

class_field_decl_pattern ==
    [pat  |-> Indent(1) \o <<Lit("fixed"), Sp(1)>> \o Name(2) \o <<Sp(0), Lit(";")>>,
     tmpl |-> <<>>]

class_field_pattern ==
    [pat  |-> Indent(1) \o <<Lit("fixed"), Sp(1)>> \o Name(2)
              \o <<Sp(0), Lit("="), Sp(0), Open(3), NotIn({";"}, 1), Close(3), Lit(";")>>,
     tmpl |-> <<>>]

static_regex ==
    [pat  |-> <<WB, Lit("run"), Sp(1), Lit("forever"), Sp(1)>> \o Name(1)
              \o <<Sp(0)>> \o Args(2) \o Brace,
     tmpl |-> <<T("static"), T(" "), G(1), T("("), G(2), T(")"), T(" "), T("{")>>]

async_top_regex ==
    [pat  |-> <<Bol, Sp(0), Lit("run"), Sp(1), Lit("later"), Sp(1)>> \o Name(1)
              \o <<Sp(0)>> \o Args(2) \o Brace,
     tmpl |-> <<T("async"), T(" "), T("function"), T(" "), G(1), T("("), G(2),
                T(")"), T(" "), T("{")>>]

function_declaration_regex ==
    [pat  |-> <<Lit("run"), Sp(1)>> \o Name(1) \o <<Sp(0)>> \o NoArgs \o Brace,
     tmpl |-> <<T("function"), T(" "), G(1), T("("), T(")"), T(" "), T("{")>>]

function_declaration_params_regex ==
    [pat  |-> <<Lit("run"), Sp(1)>> \o Name(1) \o <<Sp(0)>> \o Args(2) \o Brace,
     tmpl |-> <<T("function"), T(" "), G(1), T("("), G(2), T(")"), T(" "), T("{")>>]

\* "$1function $2() {": $1function names no group
nested_function_regex ==
    [pat  |-> <<Open(1), Sp(0), Close(1), Lit("run"), Sp(1)>> \o Name(2)
              \o <<Sp(0)>> \o NoArgs \o Brace,
     tmpl |-> <<NoGroup, T(" "), G(2), T("("), T(")"), T(" "), T("{")>>]

\* "$1function $2($3) {": $1function names no group
nested_function_params_regex ==
    [pat  |-> <<Open(1), Sp(0), Close(1), Lit("run"), Sp(1)>> \o Name(2)
              \o <<Sp(0)>> \o Args(3) \o Brace,
     tmpl |-> <<NoGroup, T(" "), G(2), T("("), G(3), T(")"), T(" "), T("{")>>]

class_method_post_regex ==
    [pat  |-> Indent(1) \o <<Lit("function"), Sp(1)>> \o Name(2) \o <<Sp(0)>>
              \o NoArgs \o Brace,
     tmpl |-> <<G(1), G(2), T("("), T(")"), T(" "), T("{")>>]

class_method_params_post_regex ==
    [pat  |-> Indent(1) \o <<Lit("function"), Sp(1)>> \o Name(2) \o <<Sp(0)>>
              \o Args(3) \o Brace,
     tmpl |-> <<G(1), G(2), T("("), G(3), T(")"), T(" "), T("{")>>]

\* "$1constructor($2) {": $1constructor names no group
constructor_regex ==
    [pat  |-> Indent(1) \o <<Lit("function"), Sp(1), Lit("__init__"), Sp(0)>>
              \o Args(2) \o Brace,
     tmpl |-> <<NoGroup, T("("), G(2), T(")"), T(" "), T("{")>>]

constructor_run_regex ==
    [pat  |-> Indent(1) \o <<Lit("run"), Sp(1), Lit("__init__"), Sp(0)>>
              \o Args(2) \o Brace,
     tmpl |-> <<NoGroup, T("("), G(2), T(")"), T(" "), T("{")>>]

\* "$1async $2($3) {": $1async names no group
async_method_regex ==
    [pat  |-> Indent(1) \o <<Lit("async"), Sp(1), Lit("function"), Sp(1)>> \o Name(2)
              \o <<Sp(0)>> \o Args(3) \o Brace,
     tmpl |-> <<NoGroup, T(" "), G(2), T("("), G(3), T(")"), T(" "), T("{")>>]

async_method_fix_regex ==
    [pat  |-> Indent(1) \o <<Lit("function"), Sp(1)>> \o Name(2) \o <<Sp(0)>>
              \o Args(3) \o Brace \o <<Open(4), Sp(0), Lit("await"), Close(4)>>,
     tmpl |-> <<NoGroup, T(" "), G(2), T("("), G(3), T(")"), T(" "), T("{"), G(4)>>]

class_async_regex ==
    [pat  |-> Indent(1) \o <<Lit("function"), Sp(1)>> \o Name(2) \o <<Sp(0)>>
              \o Args(3) \o Brace
              \o <<Open(4), Sp(0), Lit("let"), Sp(1), Lit("response"), Sp(0),
                   Lit("="), Sp(0), Lit("await"), Close(4)>>,
     tmpl |-> <<NoGroup, T(" "), G(2), T("("), G(3), T(")"), T(" "), T("{"), G(4)>>]

standalone_async_regex ==
    [pat  |-> <<WB, Lit("run"), Sp(1), Lit("async"), Sp(1)>> \o Name(1)
              \o <<Sp(0)>> \o Args(2) \o Brace,
     tmpl |-> <<T("async"), T(" "), T("function"), T(" "), G(1), T("("), G(2),
                T(")"), T(" "), T("{")>>]

class_run_async_regex ==
    [pat  |-> Indent(1) \o <<Lit("run"), Sp(1), Lit("async"), Sp(1)>> \o Name(2)
              \o <<Sp(0)>> \o Args(3) \o Brace,
     tmpl |-> <<NoGroup, T(" "), G(2), T("("), G(3), T(")"), T(" "), T("{")>>]

remove_regex ==
    [pat  |-> <<WB, Lit("remove"), Sp(1), Open(1), Path, OptIdx, Close(1), WB>>,
     tmpl |-> <<T("delete"), T(" "), G(1)>>]

\* \b<keyword>\b  ->  the JavaScript keyword
keyword_regex(pair) ==
    [pat |-> <<WB, Lit(pair[1]), WB>>, tmpl |-> Lits(pair[2])]

default_export_regex ==
    [pat  |-> <<WB, Lit("share"), Sp(1), Lit("default"), Sp(1), Lit("run"), Sp(1)>>
              \o Name(1) \o <<Sp(0)>> \o Args(2) \o Brace,
     tmpl |-> <<T("export"), T(" "), T("default"), T(" "), T("function"), T(" "),
                G(1), T("("), G(2), T(")"), T(" "), T("{")>>]

object_function_regex ==
    [pat  |-> <<Open(1), Wd, Close(1), Sp(0), Lit(":"), Sp(0), Lit("run"), Sp(0), Lit("(")>>,
     tmpl |-> <<G(1), T(":"), T(" "), T("function"), T("(")>>]

arrow_function_regex ==
    [pat  |-> <<Lit("run"), Sp(0)>> \o Args(1) \o Brace,
     tmpl |-> <<T("function"), T("("), G(1), T(")"), T(" "), T("{")>>]

\* the pattern with its group left open: ([a-zA-Z_$][\w$]*\!
non_null_unclosed ==
    [pat  |-> <<Open(1), Id, Lit("!")>>,
     tmpl |-> <<G(1)>>]

non_null_regex ==
    [pat  |-> <<Open(1), Id, Close(1), Lit("!")>>,
     tmpl |-> <<G(1)>>]

super_constructor_regex ==
    [pat  |-> <<Lit("super"), Lit("."), Lit("constructor"), Lit("(")>>,
     tmpl |-> <<T("super"), T("(")>>]

json_method_regex ==
    [pat  |-> <<Lit("."), Lit("JSON"), Lit("(")>>,
     tmpl |-> <<T("."), T("json"), T("(")>>]

static_method_call_regex ==
    [pat  |-> Name(1) \o <<Lit("."), Lit("forever"), Lit(".")>> \o Name(2) \o <<Lit("(")>>,
     tmpl |-> <<G(1), T("."), G(2), T("(")>>]

static_call_regex ==
    [pat  |-> Name(1) \o <<Lit("."), Lit("static"), Lit(".")>> \o Name(2) \o <<Lit("(")>>,
     tmpl |-> <<G(1), T("."), G(2), T("(")>>]

default_import_regex ==
    [pat  |-> <<WB, Lit("import"), Sp(1), Lit("default"), Sp(1), Lit("as"), Sp(1)>>
              \o Name(1),
     tmpl |-> <<T("import"), T(" "), G(1)>>]

\* the loop over KEYWORDS, which skips run and remove
RECURSIVE keyword_pass(_, _, _)
keyword_pass(table, txt, k) ==
    IF k > Len(table) \/ Len(txt) = 0 THEN txt
    ELSE IF table[k][1] \in {"run", "remove"} THEN keyword_pass(table, txt, k + 1)
    ELSE keyword_pass(table, Apply(keyword_regex(table[k]), txt), k + 1)

declaration_passes ==
    <<class_decl_regex, class_field_decl_pattern, class_field_pattern,
      static_regex, async_top_regex,
      function_declaration_regex, function_declaration_params_regex,
      nested_function_regex, nested_function_params_regex,
      class_method_post_regex, class_method_params_post_regex,
      constructor_regex, constructor_run_regex,
      async_method_regex, async_method_fix_regex, class_async_regex,
      standalone_async_regex, class_run_async_regex,
      remove_regex>>

fixup_passes ==
    <<default_export_regex, object_function_regex, arrow_function_regex,
      non_null_regex, super_constructor_regex, json_method_regex,
      static_method_call_regex, static_call_regex, default_import_regex>>

transpile(src) ==
    ApplyAll(fixup_passes,
             keyword_pass(KEYWORDS, ApplyAll(declaration_passes, src, 1), 1), 1)

\* Regex::new(..) is Ok: every group that opens closes, and none closes unopened
compiles(pat) ==
    /\ \A i \in DOMAIN pat : pat[i].k = "open" =>
           \E j \in DOMAIN pat : j > i /\ pat[j].k = "close" /\ pat[j].g = pat[i].g
    /\ \A j \in DOMAIN pat : pat[j].k = "close" =>
           \E i \in DOMAIN pat : i < j /\ pat[i].k = "open" /\ pat[i].g = pat[j].g

\* the patterns transpile hands to Regex::new(..)?, in its order
transpile_patterns ==
    [k \in DOMAIN declaration_passes |-> declaration_passes[k].pat]
    \o [k \in DOMAIN KEYWORDS |-> keyword_regex(KEYWORDS[k]).pat]
    \o [k \in DOMAIN fixup_passes |-> fixup_passes[k].pat]

\* the ? after every Regex::new: the first pattern that does not compile
\* ends the call with its error
transpile_compiled == \A k \in DOMAIN transpile_patterns : compiles(transpile_patterns[k])

(***************************************************************************)
(* Text helpers: str::split, str::trim, str::starts_with, str::find        *)
(***************************************************************************)
RECURSIVE SplitFrom(_, _, _, _)
SplitFrom(txt, sep, i, cur) ==
    IF i > Len(txt) THEN <<cur>>
    ELSE IF txt[i] = sep THEN <<cur>> \o SplitFrom(txt, sep, i + 1, <<>>)
    ELSE SplitFrom(txt, sep, i + 1, Append(cur, txt[i]))

\* source.split(sep): always at least one piece
Split(txt, sep) == SplitFrom(txt, sep, 1, <<>>)

RECURSIVE TrimStart(_)
TrimStart(txt) ==
    IF Len(txt) > 0 /\ IsWs(txt[1]) THEN TrimStart(Tail(txt)) ELSE txt

RECURSIVE TrimEnd(_)
TrimEnd(txt) ==
    IF Len(txt) > 0 /\ IsWs(txt[Len(txt)])
    THEN TrimEnd(SubSeq(txt, 1, Len(txt) - 1)) ELSE txt

Trim(txt) == TrimEnd(TrimStart(txt))

StartsWith(txt, pre) ==
    Len(txt) >= Len(pre) /\ SubSeq(txt, 1, Len(pre)) = pre

\* positions at which sub occurs in txt
Occurrences(txt, sub) ==
    {i \in 1..(Len(txt) - Len(sub) + 1) : SubSeq(txt, i, i + Len(sub) - 1) = sub}

Contains(txt, sub) == Occurrences(txt, sub) # {}

Min(S) == CHOOSE x \in S : \A y \in S : x <= y

\* str::find: 0 stands for None
Find(txt, sub) == IF Contains(txt, sub) THEN Min(Occurrences(txt, sub)) ELSE 0

\* the least k with P[k], 0 when there is none
FirstTrue(P) ==
    IF \E k \in DOMAIN P : P[k] THEN Min({k \in DOMAIN P : P[k]}) ELSE 0

\* the words a keyword table translates
Aliases(table) == {table[k][1] : k \in DOMAIN table}

(***************************************************************************)
(* language::keywords::FORBIDDEN_KEYWORDS and INVALID_SYNTAX.  The file is *)
(* not among the sources; the entries are the forbidden canonical forms    *)
(* the design lists: the keywords if, function, class, interface and enum, *)
(* type-annotation colons and generic angle brackets.                      *)
(***************************************************************************)
FORBIDDEN_KEYWORDS == <<"if", "function", "class", "interface", "enum">>

INVALID_SYNTAX == << <<":", " ", "string">>, <<":", " ", "number">>, <<"<", "T", ">">> >>

(***************************************************************************)
(* NullScriptTranspiler::validate_syntax of compiler/transpiler/mod.rs     *)
(***************************************************************************)
SyntaxError(check, token, line) ==
    [ok |-> FALSE, kind |-> "Syntax", check |-> check, token |-> token, line |-> line]

Ok == [ok |-> TRUE, kind |-> "", check |-> "", token |-> <<>>, line |-> 0]

\* From<regex::Error> for NullScriptError: what ? returns
RegexError == [ok |-> FALSE, kind |-> "Regex", check |-> "", token |-> <<>>, line |-> 0]

\* is the (trimmed) line skipped as blank or comment
skipped_line(trimmed) ==
    \/ Len(trimmed) = 0
    \/ StartsWith(trimmed, <<"/", "/">>)
    \/ StartsWith(trimmed, <<"/", "*">>)

\* the part of a line before the // at comment_start (0: there is none)
before_comment(line, comment_start) ==
    IF comment_start # 0 THEN SubSeq(line, 1, comment_start - 1) ELSE line

\* the copy the keyword scans read: lines 27-45
RECURSIVE strip_comments(_, _)
strip_comments(lines, k) ==
    IF k > Len(lines) THEN <<>>
    ELSE IF skipped_line(Trim(lines[k])) THEN strip_comments(lines, k + 1)
    ELSE before_comment(lines[k], Find(lines[k], <<"/", "/">>)) \o <<"\n">>
         \o strip_comments(lines, k + 1)

code_without_comments(src) == strip_comments(Split(src, "\n"), 1)

\* the patterns with a space, a colon or an angle bracket are searched as
\* substrings, the others as words
invalid_syntax_found(pattern, code) ==
    IF \E k \in DOMAIN pattern : pattern[k] \in {" ", ":", "<", ">"}
    THEN Contains(code, pattern)
    ELSE is_match(<<WB>> \o [k \in DOMAIN pattern |-> Lit(pattern[k])] \o <<WB>>, code)

\* [\w$<>|[\]\s]*
TypeChars == In({"<", ">", "|", "[", "]"})

type_annotation_patterns == <<
    <<Lit(":"), Sp(0), Id, TypeChars, Sp(0), One({"=", ",", ")"})>>,
    <<Lit(")"), Sp(0), Lit(":"), Sp(0), Id, TypeChars, Sp(0), Lit("{")>>,
    <<Lit("run"), Sp(1), Id, Sp(0), Lit("("), NotIn({")"}, 0), Lit(")"), Sp(0),
      Lit(":"), Sp(0), Id, TypeChars>> >>

invalid_patterns == <<
    [pat |-> <<Bot, Sp(0), Lit("function"), Sp(1), Wd, Sp(0), Lit("(")>>, token |-> "function"],
    [pat |-> <<Bot, Sp(0), Lit("const"), Sp(1), Wd>>,                   token |-> "const"],
    [pat |-> <<Bot, Sp(0), Lit("if"), Sp(0), Lit("(")>>,                token |-> "if"],
    [pat |-> <<Bot, Sp(0), Lit("else"), Sp(1)>>,                        token |-> "else"],
    [pat |-> <<Bot, Sp(0), Lit("true"), WB>>,                           token |-> "true"],
    [pat |-> <<Bot, Sp(0), Lit("false"), WB>>,                          token |-> "false"],
    [pat |-> <<Bot, Sp(0), Lit("class"), Sp(1), Wd>>,                   token |-> "class"],
    [pat |-> <<Bot, Sp(0), Lit("try"), Sp(0), Lit("{")>>,               token |-> "try"],
    [pat |-> <<Bot, Sp(0), Lit("catch"), Sp(0), Lit("(")>>,             token |-> "catch"],
    [pat |-> <<Bot, Sp(0), Lit("finally"), Sp(0), Lit("{")>>,           token |-> "finally"] >>

\* the first of the verdicts that is an error
first_error(verdicts) ==
    IF \E k \in DOMAIN verdicts : ~verdicts[k].ok
    THEN verdicts[Min({k \in DOMAIN verdicts : ~verdicts[k].ok})]
    ELSE Ok

\* the error that names entry hit of a table (0: no entry was found)
error_of(check, tokens, hit, line) ==
    IF hit = 0 THEN Ok ELSE SyntaxError(check, tokens[hit], line)

\* one round of the loop over the lines
line_check(line, k) ==
    IF skipped_line(line) THEN Ok
    ELSE error_of("line", [p \in DOMAIN invalid_patterns |-> <<invalid_patterns[p].token>>],
                  FirstTrue([p \in DOMAIN invalid_patterns |->
                                is_match(invalid_patterns[p].pat, line)]), k)

\* the loop over the lines, left at the first error: lines 134-174
line_scan(lines) ==
    first_error([k \in DOMAIN lines |-> line_check(Trim(lines[k]), k)])

identifier_patterns == <<
    [pat |-> <<Bot, Sp(0), One({"let", "fixed", "var"}), Sp(1)>> \o Name(2)
             \o <<Sp(0), Lit("=")>>,
     description |-> "variable declaration", group |-> 2],
    [pat |-> <<Bot, Sp(0), Lit("run"), Sp(1)>> \o Name(1) \o <<Sp(0), Lit("(")>>,
     description |-> "function declaration", group |-> 1],
    [pat |-> <<Bot, Sp(0), Lit("model"), Sp(1)>> \o Name(1) \o <<Sp(0), Lit("{")>>,
     description |-> "class declaration", group |-> 1],
    [pat |-> <<Bot, Sp(1), Lit("run"), Sp(1)>> \o Name(1) \o <<Sp(0), Lit("(")>>,
     description |-> "method declaration", group |-> 1] >>

\* Regex::captures_iter: the matches, leftmost first, without overlap
RECURSIVE captures_iter(_, _, _)
RECURSIVE captures_next(_, _, _, _)

\* r is the outcome of matching at i
captures_next(pat, txt, i, r) ==
    IF r.ok /\ r.end > i THEN <<r>> \o captures_iter(pat, txt, r.end)
    ELSE captures_iter(pat, txt, i + 1)

captures_iter(pat, txt, i) ==
    IF i > Len(txt) THEN <<>>
    ELSE captures_next(pat, txt, i, MatchAt(pat, txt, i))

\* nullscript_keywords.contains(&text)
is_keyword(text) == Len(text) = 1 /\ text[1] \in Aliases(KEYWORDS)

\* the first of the names that is not empty, <<>> when there is none
first_name(names) ==
    IF \E k \in DOMAIN names : names[k] # <<>>
    THEN names[Min({k \in DOMAIN names : names[k] # <<>>})]
    ELSE <<>>

\* the first of the names that is a keyword, <<>> when there is none
first_keyword(names) ==
    first_name([k \in DOMAIN names |-> IF is_keyword(names[k]) THEN names[k] ELSE <<>>])

\* group g of each of the matches, trimmed
trimmed_groups(txt, caps, g) == [c \in DOMAIN caps |-> Trim(Group(txt, caps[c], g))]

\* the identifier an identifier_patterns entry captures when it is a keyword
reserved_identifier(entry, src) ==
    first_keyword(trimmed_groups(src, captures_iter(entry.pat, src, 1), entry.group))

param_pattern ==
    <<Lit("run"), Sp(1), Id, Sp(0), Lit("("), Open(1), NotIn({")"}, 0), Close(1), Lit(")")>>

\* the parameters of a captured list, trimmed
trimmed_params(params) == [p \in DOMAIN params |-> Trim(params[p])]

\* the first parameter of a captured list that is a keyword
keyword_param(params_str) == first_keyword(trimmed_params(Split(params_str, ",")))

\* the first keyword among the parameters of the matches
keyword_params(txt, caps) ==
    first_name([c \in DOMAIN caps |-> keyword_param(Group(txt, caps[c], 1))])

reserved_param(src) == keyword_params(src, captures_iter(param_pattern, src, 1))

\* the error for a declared name that is a keyword (<<>>: there is none)
reserved_error(name) ==
    IF name = <<>> THEN Ok ELSE SyntaxError("reserved", name, 1)

\* the scans of the comment-stripped copy: lines 48-105
keyword_scans(code) ==
    << error_of("forbidden", [k \in DOMAIN FORBIDDEN_KEYWORDS |-> <<FORBIDDEN_KEYWORDS[k]>>],
                FirstTrue([k \in DOMAIN FORBIDDEN_KEYWORDS |->
                    is_match(<<WB, Lit(FORBIDDEN_KEYWORDS[k]), WB>>, code)]), 1),
       error_of("invalid", INVALID_SYNTAX,
                FirstTrue([k \in DOMAIN INVALID_SYNTAX |->
                    invalid_syntax_found(INVALID_SYNTAX[k], code)]), 1) >>

\* the scans of the source as written: lines 108-233
source_scans(src) ==
    << IF \E k \in DOMAIN type_annotation_patterns :
              is_match(type_annotation_patterns[k], src)
       THEN SyntaxError("annotation", <<>>, 1) ELSE Ok,
       line_scan(Split(src, "\n")),
       reserved_error(first_name([k \in DOMAIN identifier_patterns |->
                         reserved_identifier(identifier_patterns[k], src)])),
       reserved_error(reserved_param(src)) >>

\* the checks in their order; the first error is returned
validate_syntax(src) ==
    first_error(keyword_scans(code_without_comments(src)) \o source_scans(src))

(***************************************************************************)
(* NullScriptKeywords::new of core/keywords.rs.  An alias and its          *)
(* TypeScript keyword are token sequences: "feels async" is three tokens.  *)
(***************************************************************************)
control_flow == <<
    << <<"checkthis">>, <<"if">> >>,     << <<"orelse">>, <<"else">> >>,
    << <<"loopin">>, <<"for">> >>,       << <<"whilevibe">>, <<"while">> >>,
    << <<"switchup">>, <<"switch">> >>,  << <<"whenits">>, <<"case">> >>,
    << <<"otherwise">>, <<"default">> >>, << <<"keepgoing">>, <<"continue">> >>,
    << <<"stopit">>, <<"break">> >> >>

error_handling == <<
    << <<"oops">>, <<"try">> >>,    << <<"oop">>, <<"try">> >>,
    << <<"mybad">>, <<"catch">> >>, << <<"anyway">>, <<"finally">> >> >>

variables == <<
    << <<"maybe">>, <<"let">> >>, << <<"definitely">>, <<"const">> >>,
    << <<"mayhap">>, <<"var">> >> >>

imports == << << <<"gimme">>, <<"import">> >>, << <<"yeet">>, <<"export">> >> >>

types == <<
    << <<"vibes">>, <<"interface">> >>, << <<"vibe">>, <<"type">> >>,
    << <<"mood">>, <<"enum">> >>,       << <<"bigbrain">>, <<"class">> >> >>

values == <<
    << <<"fr">>, <<"true">> >>,    << <<"cap">>, <<"false">> >>,
    << <<"nocap">>, <<"null">> >>, << <<"ghost">>, <<"undefined">> >>,
    << <<"sus">>, <<"any">> >> >>

objects == <<
    << <<"dis">>, <<"this">> >>,  << <<"parent">>, <<"super">> >>,
    << <<"fresh">>, <<"new">> >>, << <<"remove">>, <<"delete">> >> >>

operators == <<
    << <<"and">>, <<"&", "&">> >>,       << <<"or">>, <<"|", "|">> >>,
    << <<"not">>, <<"!">> >>,            << <<"is">>, <<"=", "=", "=">> >>,
    << <<"aint">>, <<"!", "=", "=">> >>, << <<"bigger">>, <<">">> >>,
    << <<"smaller">>, <<"<">> >>,        << <<"biggereq">>, <<">", "=">> >>,
    << <<"smallereq">>, <<"<", "=">> >> >>

functions == << << <<"pls">>, <<"return">> >> >>

keywords == <<
    << <<"with">>, <<"with">> >>, << <<"in">>, <<"in">> >>, << <<"of">>, <<"of">> >>,
    << <<"as">>, <<"as">> >>,     << <<"from">>, <<"from">> >> >>

multi_word == << << <<"orsomething">>, <<"else", " ", "if">> >> >>

function_declarations == <<
    << <<"feels", " ", "async">>, <<"async", " ", "function">> >>,
    << <<"feels">>, <<"function">> >> >>

all_categories ==
    control_flow \o error_handling \o variables \o imports \o types \o values
    \o objects \o operators \o functions \o keywords \o multi_word
    \o function_declarations

\* the entries of the map get_all_keywords builds; a HashMap has no order
get_all_keywords == {all_categories[k] : k \in DOMAIN all_categories}

contains_key(map, alias) == \E e \in map : e[1] = alias

\* the orders in which the entries of a map can be iterated
IterationOrders(map) ==
    {o \in [1..Cardinality(map) -> map] : \A i, j \in DOMAIN o : o[i] = o[j] => i = j}

(***************************************************************************)
(* NullScriptTranspiler::validate_syntax of transpiler.rs                  *)
(***************************************************************************)
invalid_patterns_core == <<
    [pat |-> <<WB, Lit("function"), Sp(1), Wd, Sp(0), Lit("(")>>, token |-> "function"],
    [pat |-> <<WB, Lit("const"), Sp(1), Wd>>,         token |-> "const"],
    [pat |-> <<WB, Lit("let"), Sp(1), Wd>>,           token |-> "let"],
    [pat |-> <<WB, Lit("var"), Sp(1), Wd>>,           token |-> "var"],
    [pat |-> <<WB, Lit("if"), Sp(0), Lit("(")>>,      token |-> "if"],
    [pat |-> <<WB, Lit("else"), Sp(1)>>,              token |-> "else"],
    [pat |-> <<WB, Lit("return"), Sp(1)>>,            token |-> "return"],
    [pat |-> <<WB, Lit("true"), WB>>,                 token |-> "true"],
    [pat |-> <<WB, Lit("false"), WB>>,                token |-> "false"],
    [pat |-> <<WB, Lit("null"), WB>>,                 token |-> "null"],
    [pat |-> <<WB, Lit("undefined"), WB>>,            token |-> "undefined"],
    [pat |-> <<WB, Lit("interface"), Sp(1), Wd>>,     token |-> "interface"],
    [pat |-> <<WB, Lit("type"), Sp(1), Wd>>,          token |-> "type"],
    [pat |-> <<WB, Lit("class"), Sp(1), Wd>>,         token |-> "class"],
    [pat |-> <<WB, Lit("try"), Sp(0), Lit("{")>>,     token |-> "try"],
    [pat |-> <<WB, Lit("catch"), Sp(0), Lit("(")>>,   token |-> "catch"],
    [pat |-> <<WB, Lit("finally"), Sp(0), Lit("{")>>, token |-> "finally"] >>

unknown_keyword_regex ==
    <<Bot, Open(1), Wd, Close(1), Sp(1), Wd, Sp(0), Lit("=")>>

valid_keywords == {<<"export">>, <<"import">>, <<"from">>, <<"as">>}

\* the word a match of unknown_keyword_regex captured when it is no keyword
unknown_word(keyword) ==
    IF ~contains_key(get_all_keywords, keyword) /\ keyword \notin valid_keywords
    THEN keyword ELSE <<>>

\* captures is the outcome of matching unknown_keyword_regex on the line
unknown_capture(line, captures) ==
    IF captures.ok THEN unknown_word(Group(line, captures, 1)) ELSE <<>>

\* the word that starts the line "<word> <word> =" when it is no keyword
unknown_keyword(line) ==
    unknown_capture(line, MatchAt(unknown_keyword_regex, line, 1))

\* the error for a line that starts with an unknown word (<<>>: it does not)
unknown_error(keyword, k) ==
    IF keyword = <<>> THEN Ok ELSE SyntaxError("unknown", keyword, k)

\* One round of the loop over the lines.  The message of the invalid-pattern
\* error carries the line number only: the description of the pattern that
\* matched is not used.
line_check_core(line, k) ==
    IF skipped_line(line) THEN Ok
    ELSE IF \E p \in DOMAIN invalid_patterns_core :
               is_match(invalid_patterns_core[p].pat, line)
    THEN SyntaxError("line", <<>>, k)
    ELSE unknown_error(unknown_keyword(line), k)

\* the loop over the lines, left at the first error
validate_syntax_core(src) ==
    first_error([k \in DOMAIN Split(src, "\n") |->
                    line_check_core(Trim(Split(src, "\n")[k]), k)])

(***************************************************************************)
(* NullScriptTranspiler::transpile of transpiler.rs                        *)
(***************************************************************************)
\* str::contains on an alias: does the word occur in it
alias_contains(alias, word) == \E k \in DOMAIN alias : alias[k] = word

\* \b<alias>\s+([a-zA-Z_$][\w$]*)  ->  "<ts_keyword> $1"
async_declaration_regex(alias, ts_keyword) ==
    [pat  |-> <<WB>> \o [k \in DOMAIN alias |-> Lit(alias[k])] \o <<Sp(1)>> \o Name(1),
     tmpl |-> Lits(ts_keyword) \o <<T(" "), G(1)>>]

\* \b<alias>\s+([a-zA-Z_$][\w$]*)\s*(?:<[^>]*>)?\s*\(
declaration_regex(alias) ==
    <<WB>> \o [k \in DOMAIN alias |-> Lit(alias[k])] \o <<Sp(1)>> \o Name(1)
    \o <<Sp(0), OptGen, Sp(0), Lit("(")>>

\* \b<alias>\s*\(  ->  "<ts_keyword>("
anon_regex(alias, ts_keyword) ==
    [pat  |-> <<WB>> \o [k \in DOMAIN alias |-> Lit(alias[k])] \o <<Sp(0), Lit("(")>>,
     tmpl |-> Lits(ts_keyword) \o <<T("(")>>]

\* where the line that holds position i starts
RECURSIVE LineStart(_, _)
LineStart(txt, i) ==
    IF i = 1 \/ txt[i - 1] = "\n" THEN i ELSE LineStart(txt, i - 1)

\* the leading whitespace of the line that holds position i is not empty
indented(txt, i) == txt[LineStart(txt, i)] = " "

\* str::replace(alias, ""): the text without its occurrences of the word
RECURSIVE without(_, _)
without(txt, word) ==
    IF Len(txt) = 0 THEN <<>>
    ELSE IF txt[1] = word THEN without(Tail(txt), word)
    ELSE <<txt[1]>> \o without(Tail(txt), word)

\* the closure of lines 144-166: what a declaration that matched at i..end
\* becomes, by the indentation of the line the match starts on
declaration_replacement(alias, ts_keyword, txt, i, end) ==
    LET rest == TrimStart(without(SubSeq(txt, i, end - 1), alias[1]))
    IN  IF indented(txt, i) THEN rest ELSE ts_keyword \o <<" ">> \o rest

RECURSIVE replace_declarations(_, _, _, _)
RECURSIVE replace_declaration(_, _, _, _, _)

\* r is the outcome of matching at i
replace_declaration(alias, ts_keyword, txt, i, r) ==
    IF r.ok
    THEN declaration_replacement(alias, ts_keyword, txt, i, r.end)
         \o replace_declarations(alias, ts_keyword, txt, r.end)
    ELSE <<txt[i]>> \o replace_declarations(alias, ts_keyword, txt, i + 1)

replace_declarations(alias, ts_keyword, txt, i) ==
    IF i > Len(txt) THEN <<>>
    ELSE replace_declaration(alias, ts_keyword, txt, i,
                             MatchAt(declaration_regex(alias), txt, i))

\* one round of the loop over get_function_keywords
function_keyword_step(entry, txt) ==
    IF alias_contains(entry[1], "async")
    THEN Apply(async_declaration_regex(entry[1], entry[2]), txt)
    ELSE Apply(anon_regex(entry[1], entry[2]),
               replace_declarations(entry[1], entry[2], txt, 1))

remove_regex_core == remove_regex.pat

\* one round of the loop over get_all_keywords
keyword_step(entry, txt) ==
    IF entry[1] = <<"feels">> \/ entry[1] = <<"feels", " ", "async">> THEN txt
    ELSE IF entry[1] = <<"remove">>
    THEN replace_all(remove_regex_core, <<T("delete"), T(" "), G(1)>>, txt)
    ELSE replace_all(<<WB, Lit(entry[1][1]), WB>>, Lits(entry[2]), txt)

\* \b<alias>\s+  ->  "<ts_keyword> "
multi_word_step(entry, txt) ==
    replace_all(<<WB, Lit(entry[1][1]), Sp(1)>>, Lits(entry[2]) \o <<T(" ")>>, txt)

\* for (alias, ts_keyword) in self.keywords.get_function_keywords(); a round
\* leaves an empty text empty
RECURSIVE function_keywords_loop(_, _, _)
function_keywords_loop(function_keywords, txt, k) ==
    IF k > Len(function_keywords) \/ Len(txt) = 0 THEN txt
    ELSE function_keywords_loop(function_keywords,
                                function_keyword_step(function_keywords[k], txt), k + 1)

\* for (alias, ts_keyword) in all_keywords
RECURSIVE all_keywords_loop(_, _, _)
all_keywords_loop(all_keywords, txt, k) ==
    IF k > Len(all_keywords) \/ Len(txt) = 0 THEN txt
    ELSE all_keywords_loop(all_keywords, keyword_step(all_keywords[k], txt), k + 1)

\* for (alias, ts_keyword) in self.keywords.get_multi_word_keywords()
RECURSIVE multi_word_loop(_, _, _)
multi_word_loop(multi_word_keywords, txt, k) ==
    IF k > Len(multi_word_keywords) \/ Len(txt) = 0 THEN txt
    ELSE multi_word_loop(multi_word_keywords,
                         multi_word_step(multi_word_keywords[k], txt), k + 1)

\* function_keywords and all_keywords are the entries of the two HashMaps in
\* the order in which this call iterates them
transpile_core(src, function_keywords, all_keywords) ==
    multi_word_loop(multi_word,
        all_keywords_loop(all_keywords,
            function_keywords_loop(function_keywords, src, 1), 1), 1)

\* The entries of get_all_keywords whose alias occurs in the text.  The pass
\* of any other entry changes nothing wherever it stands in the order: its
\* pattern \b<alias>\b needs the alias as a word, and no replacement text
\* holds a word that is the alias of another entry.
occurring(map, txt) ==
    {e \in map : Len(e[1]) = 1 /\ \E i \in DOMAIN txt : txt[i] = e[1][1]}

(***************************************************************************)
(* ReverseTranspiler of compiler/reverse_transpiler/mod.rs                 *)
(***************************************************************************)
\* new: js_to_ns_map.insert(js_keyword, ns_keyword) over KEYWORDS in its
\* order; an insert under a key the map holds replaces the value
js_to_ns_map ==
    {<<KEYWORDS[k][2], KEYWORDS[k][1]>> : k \in
        {k \in DOMAIN KEYWORDS :
            \A later \in DOMAIN KEYWORDS : later > k => KEYWORDS[later][2] # KEYWORDS[k][2]}}

\* \b<word>\b  ->  "<alias>"
word_regex(word, alias) ==
    [pat |-> <<WB, Lit(word), WB>>, tmpl |-> <<T(alias)>>]

\* \b<word>\s+  ->  "<alias> "
prefix_regex(word, alias) ==
    [pat |-> <<WB, Lit(word), Sp(1)>>, tmpl |-> <<T(alias), T(" ")>>]

\* <operator>  ->  " <alias> "
operator_regex(operator, alias) ==
    [pat  |-> [k \in DOMAIN operator |-> Lit(operator[k])],
     tmpl |-> <<T(" "), T(alias), T(" ")>>]

source_map_regex ==
    [pat  |-> <<Lit("/"), Lit("/"), Lit("#"), Lit(" "), Lit("sourceMappingURL"),
                Lit("="), NotIn({"\n"}, 0)>>,
     tmpl |-> <<>>]

function_regex ==
    [pat  |-> <<Lit("function"), Sp(1)>> \o Name(1) \o <<Sp(0)>> \o Args(2) \o Brace,
     tmpl |-> <<T("run"), T(" "), G(1), T("("), G(2), T(")"), T(" "), T("{")>>]

async_function_regex ==
    [pat  |-> <<Lit("async"), Sp(1), Lit("function"), Sp(1)>> \o Name(1) \o <<Sp(0)>>
              \o Args(2) \o Brace,
     tmpl |-> <<T("later"), T(" "), T("run"), T(" "), G(1), T("("), G(2), T(")"),
                T(" "), T("{")>>]

static_method_regex ==
    [pat  |-> <<Lit("static"), Sp(1)>> \o Name(1) \o <<Sp(0)>> \o Args(2) \o Brace,
     tmpl |-> <<T("run"), T(" "), T("forever"), T(" "), G(1), T("("), G(2), T(")"),
                T(" "), T("{")>>]

class_regex ==
    [pat  |-> <<Lit("class"), Sp(1)>> \o Name(1) \o Brace,
     tmpl |-> <<T("model"), T(" "), G(1), T(" "), T("{")>>]

extends_regex ==
    [pat  |-> <<Lit("class"), Sp(1)>> \o Name(1) \o <<Sp(1), Lit("extends"), Sp(1)>>
              \o Name(2) \o Brace,
     tmpl |-> <<T("model"), T(" "), G(1), T(" "), T("inherits"), T(" "), G(2),
                T(" "), T("{")>>]

reverse_constructor_regex ==
    [pat  |-> <<Lit("constructor"), Sp(0)>> \o Args(1) \o Brace,
     tmpl |-> <<T("__init__"), T("("), G(1), T(")"), T(" "), T("{")>>]

\* "$1run $2($3) {": $1run names no group
method_regex ==
    [pat  |-> <<Open(1), Sp(1), Close(1)>> \o Name(2) \o <<Sp(0)>> \o Args(3) \o Brace,
     tmpl |-> <<NoGroup, T(" "), G(2), T("("), G(3), T(")"), T(" "), T("{")>>]

\* import\s+  ->  "use ",  export\s+  ->  "share ": no \b in front
import_regex == [pat |-> <<Lit("import"), Sp(1)>>, tmpl |-> <<T("use"), T(" ")>>]

export_regex == [pat |-> <<Lit("export"), Sp(1)>>, tmpl |-> <<T("share"), T(" ")>>]

\* !(\w+)  ->  "not $1"
not_regex ==
    [pat  |-> <<Lit("!"), Open(1), Wd, Close(1)>>,
     tmpl |-> <<T("not"), T(" "), G(1)>>]

\* "  +"  ->  " "
multiple_spaces ==
    [pat |-> <<Lit(" "), Rep({" "}, 1)>>, tmpl |-> <<T(" ")>>]

\* the passes of lines 27-96, before the loop over the map
passes_before_map ==
    <<source_map_regex, function_regex, async_function_regex, static_method_regex,
      class_regex, extends_regex, reverse_constructor_regex, method_regex,
      word_regex("const", "fixed"), word_regex("let", "let"), word_regex("var", "var"),
      import_regex, export_regex,
      word_regex("if", "whatever"), word_regex("else", "otherwise"),
      word_regex("for", "since"), word_regex("while", "when"),
      word_regex("try", "test"), word_regex("catch", "grab"),
      word_regex("finally", "atLast")>>

\* the keys the loop over the map skips: line 101
handled_above ==
    {<<"function">>, <<"const">>, <<"let">>, <<"var">>, <<"if">>, <<"else">>,
     <<"for">>, <<"while">>, <<"try">>, <<"catch">>, <<"finally">>, <<"class">>,
     <<"import">>, <<"export">>}

\* the pattern without its word boundaries: <js_keyword>
map_regex_unbounded(entry) ==
    [pat  |-> [k \in DOMAIN entry[1] |-> Lit(entry[1][k])],
     tmpl |-> <<T(entry[2])>>]

\* \b<js_keyword>\b  ->  "<ns_keyword>"
map_regex(entry) ==
    [pat  |-> <<WB>> \o [k \in DOMAIN entry[1] |-> Lit(entry[1][k])] \o <<WB>>,
     tmpl |-> <<T(entry[2])>>]

\* for (js_keyword, ns_keyword) in &self.js_to_ns_map, in the order entries
RECURSIVE map_loop(_, _, _)
map_loop(entries, txt, k) ==
    IF k > Len(entries) \/ Len(txt) = 0 THEN txt
    ELSE IF entries[k][1] \in handled_above THEN map_loop(entries, txt, k + 1)
    ELSE map_loop(entries, Apply(map_regex(entries[k]), txt), k + 1)

\* the passes of lines 112-191, after the loop over the map
passes_after_map ==
    <<operator_regex(<<"=", "=", "=">>, "is"), operator_regex(<<"!", "=", "=">>, "isnt"),
      operator_regex(<<"&", "&">>, "and"), operator_regex(<<"|", "|">>, "or"),
      not_regex,
      prefix_regex("new", "fresh"),
      word_regex("this", "self"), word_regex("super", "parent"),
      prefix_regex("delete", "remove"),
      prefix_regex("await", "hold"), prefix_regex("async", "later"),
      word_regex("break", "stop"), word_regex("continue", "keepgoing"),
      word_regex("switch", "switch"), word_regex("case", "case"),
      word_regex("default", "done"),
      word_regex("true", "yes"), word_regex("false", "no"),
      word_regex("typeof", "what"), word_regex("instanceof", "kind"),
      word_regex("in", "inside"),
      multiple_spaces>>

\* entries: the pairs of js_to_ns_map in the order this call iterates them
reverse_transpile(js_content, entries) ==
    ApplyAll(passes_after_map,
             map_loop(entries, ApplyAll(passes_before_map, js_content, 1), 1), 1)

\* The entries of js_to_ns_map whose key occurs in the text and is not one
\* the loop skips.  The round of any other entry changes nothing wherever it
\* stands in the order: a skipped key is passed over, and no replacement text
\* of the loop holds a token of a key.
occurring_keys(map, txt) ==
    {e \in map : e[1] \notin handled_above /\ Contains(txt, e[1])}

(***************************************************************************)
(* ReverseTranspiler::analyze_conversion_quality and                       *)
(* ConversionReport::print_report.  str::contains is read on tokens: the   *)
(* word undefined, the operators == and !=, the word var and a space.      *)
(***************************************************************************)
\* issues: lines 249-251
found_issues(converted_ns) ==
    IF Contains(converted_ns, <<"undefined">>) THEN <<"undefined">> ELSE <<>>

\* a warning for every var declaration instead of one for the category
found_warnings_each(converted_ns) ==
    (IF Contains(converted_ns, <<"=", "=">>) \/ Contains(converted_ns, <<"!", "=">>)
     THEN <<"loose equality">> ELSE <<>>)
    \o [k \in 1..Cardinality(Occurrences(converted_ns, <<"var", " ">>)) |-> "var"]

\* warnings: lines 253-259
found_warnings(converted_ns) ==
    (IF Contains(converted_ns, <<"=", "=">>) \/ Contains(converted_ns, <<"!", "=">>)
     THEN <<"loose equality">> ELSE <<>>)
    \o (IF Contains(converted_ns, <<"var", " ">>) THEN <<"var">> ELSE <<>>)

\* lines 262-268
conversion_confidence(issues, warnings) ==
    IF Len(issues) = 0 /\ Len(warnings) <= 2
    THEN (IF Len(warnings) = 0 THEN 95 ELSE 85)
    ELSE IF Len(issues) <= 2 THEN 70
    ELSE 50

\* str::lines().count(): a newline that ends the text starts no line
lines_count(txt) ==
    IF Len(txt) = 0 THEN 0
    ELSE IF txt[Len(txt)] = "\n" THEN Len(Split(txt, "\n")) - 1
    ELSE Len(Split(txt, "\n"))

analyze_conversion_quality(original_js, converted_ns) ==
    [original_lines        |-> lines_count(original_js),
     converted_lines       |-> lines_count(converted_ns),
     conversion_confidence |-> conversion_confidence(found_issues(converted_ns),
                                                     found_warnings(converted_ns)),
     issues                |-> found_issues(converted_ns),
     warnings              |-> found_warnings(converted_ns)]

\* the overall assessment print_report prints: lines 319-325
assessment(confidence) ==
    IF confidence >= 90 THEN "excellent"
    ELSE IF confidence >= 75 THEN "good with minor adjustments"
    ELSE "needs review"

NoReport ==
    [original_lines |-> 0, converted_lines |-> 0, conversion_confidence |-> 0,
     issues |-> <<>>, warnings |-> <<>>]

(***************************************************************************)
(* The sources the calls are made on                                       *)
(***************************************************************************)
MaxLines == 3      \* lines of a source handed to a validator
MaxGap == 4        \* blank lines in front of a statement handed to transpile
MaxCalls == 2      \* calls of transpile (transpiler.rs) on one source
MaxBlank == 10     \* blank lines in front of a method taken through transpile and back

RECURSIVE Repeat(_, _)
Repeat(t, n) == IF n = 0 THEN <<>> ELSE <<t>> \o Repeat(t, n - 1)

RECURSIVE JoinLines(_)
JoinLines(lines) ==
    IF Len(lines) = 1 THEN lines[1]
    ELSE lines[1] \o <<"\n">> \o JoinLines(Tail(lines))

Texts(lineSet) ==
    {JoinLines(ls) : ls \in UNION {[1..n -> lineSet] : n \in 1..MaxLines}}

ValidatorLines == {
    <<"let", " ", "a", " ", "=", " ", "1", ";">>,
    <<"const", " ", "x", " ", "=", " ", "1", ";">>,
    <<"fixed", " ", "is", " ", "=", " ", "2", ";">>,
    <<"run", " ", "f", "(", "a", ",", " ", "is", ")", " ", "{">>,
    <<" ", " ", " ", " ", "run", " ", "yes", "(", ")", " ", "{">>,
    <<"/", "/", " ", "const", " ", "x", " ", "=", " ", "1", ";">>,
    <<"/", "*">>,
    <<"*", "/">>,
    <<"let", " ", "a", " ", "=", " ", "1", ";", " ", "/", "/", " ", "b", ":", " ", "c",
      " ", "=", " ", "d">>,
    <<"let", " ", "s", " ", "=", " ", "\"", "/", "/", "\"", " ", "+", " ", "function", ";">>,
    <<"let", " ", "b", ":", " ", "number", " ", "=", " ", "2", ";">>,
    <<"if", " ", "(", "a", ")", " ", "{">> }

ValidatorLines_core == {
    <<"const", " ", "x", " ", "=", " ", "1", ";">>,
    <<"definitely", " ", "x", " ", "=", " ", "1", ";">>,
    <<"maybe", " ", "y", " ", "=", " ", "fr", ";">>,
    <<"foo", " ", "bar", " ", "=", " ", "1", ";">>,
    <<"/", "/", " ", "const", " ", "x", " ", "=", " ", "1", ";">>,
    <<"x", " ", "=", " ", "1", ";", " ", "return", " ", "x", ";">> }

\* what stands in front of the statement: nothing, or blank lines, or the
\* opening line of a class and blank lines
Prefixes(class_line) ==
    {<<>>} \cup {c \o Repeat("\n", n) : c \in {<<>>, class_line}, n \in 1..(MaxGap + 1)}

Indents == {<<>>, Repeat(" ", 4)}

Statements == {
    <<"run", " ", "f", "(", "a", ")", " ", "{">>,
    <<"run", " ", "g", "(", ")", " ", "{">>,
    <<"run", " ", "later", " ", "f", "(", ")", " ", "{">>,
    <<"run", " ", "forever", " ", "f", "(", ")", " ", "{">>,
    <<"share", " ", "default", " ", "run", " ", "f", "(", ")", " ", "{">>,
    <<"function", " ", "g", "(", ")", " ", "{">>,
    <<"async", " ", "function", " ", "f", "(", ")", " ", "{">>,
    <<"x", " ", "=", " ", "a", "!", "=", "=", "b", ";">>,
    <<"const", " ", "x", " ", "=", " ", "1", ";">>,
    <<"fixed", " ", "x", " ", "=", " ", "1", ";">>,
    <<"whatever", " ", "(", "a", " ", "is", " ", "b", ")", " ", "{">>,
    <<"remove", " ", "a", ".", "b", ";">> }

Statements_core == {
    <<"feels", " ", "f", "(", "a", ")", " ", "{">>,
    <<"feels", " ", "async", " ", "f", "(", ")", " ", "{">>,
    <<"}", " ", "orsomething", " ", "(", "a", ")", " ", "{">>,
    <<"checkthis", " ", "(", "a", " ", "is", " ", "b", ")", " ", "{">>,
    <<"remove", " ", "and", " ", "x", ";">>,
    <<"remove", " ", "a", ".", "b", " ", "and", " ", "not", " ", "c", ";">> }

\* JavaScript statements handed to reverse_transpile
Statements_js == {
    <<"x", " ", "=", " ", "a", "=", "=", "=", "b", ";">>,
    <<"x", " ", "=", " ", "a", " ", "!", "=", "=", " ", "b", ";">>,
    <<"x", " ", "=", " ", "a", " ", "=", "=", "=", " ", "b", ";">>,
    <<"if", " ", "(", "!", "a", " ", "&", "&", " ", "b", ")", " ", "{">>,
    <<"const", " ", "x", " ", "=", " ", "new", " ", "A", "(", ")", ";">>,
    <<"var", " ", "x", " ", "=", " ", "true", " ", "|", "|", " ", "!", "y", ";">>,
    <<"function", " ", "g", "(", "a", ")", " ", "{">>,
    <<"async", " ", "function", " ", "f", "(", ")", " ", "{">>,
    <<"static", " ", "f", "(", ")", " ", "{">>,
    <<"g", "(", "a", ")", " ", "{">>,
    <<"constructor", "(", "a", ")", " ", "{">>,
    <<"let", " ", "f", " ", "=", " ", "function", "(", "a", ")", " ", "{">>,
    <<"delete", " ", "a", ".", "b", ";">> }

\* JavaScript lines handed to the convert command
ConvertLines == {
    <<"var", " ", "x", " ", "=", " ", "1", ";">>,
    <<"var", " ", "y", " ", "=", " ", "a", " ", "=", "=", "=", " ", "b", ";">>,
    <<"let", " ", "a", " ", "=", " ", "undefined", ";">>,
    <<"if", " ", "(", "a", " ", "=", "=", " ", "b", ")", " ", "{">>,
    <<"if", " ", "(", "a", " ", "!", "=", " ", "b", ")", " ", "{">>,
    <<"const", " ", "c", " ", "=", " ", "new", " ", "A", "(", ")", ";">> }

\* dialect statements taken through transpile and back
Statements_round == Statements \cup {
    <<"let", " ", "f", " ", "=", " ", "run", "(", "a", ")", " ", "{">>,
    <<"let", " ", "x", " ", "=", " ", "a", " ", "is", " ", "b", ";">>,
    <<"speak", ".", "log", "(", "yes", ")", ";">> }

Sources(f) ==
    CASE f = "validate_syntax" -> Texts(ValidatorLines)
      [] f = "validate_syntax_core" -> Texts(ValidatorLines_core)
      [] f = "transpile" ->
            {p \o i \o s : p \in Prefixes(<<"model", " ", "A", " ", "{">>),
                           i \in Indents, s \in Statements}
            \cup {<<a>> : a \in Aliases(KEYWORDS)}
      [] f = "transpile_core" ->
            {p \o i \o s : p \in Prefixes(<<"bigbrain", " ", "A", " ", "{">>),
                           i \in Indents, s \in Statements_core}
            \cup {e[1] : e \in get_all_keywords}
      [] f = "reverse_transpile" ->
            {p \o i \o s : p \in Prefixes(<<"class", " ", "A", " ", "{">>),
                           i \in Indents, s \in Statements_js}
      [] f = "analyze_conversion_quality" -> Texts(ConvertLines)
      [] f = "round_trip" ->
            {x \in {p \o i \o s :
                        p \in Prefixes(<<"model", " ", "A", " ", "{">>)
                              \cup {<<"model", " ", "A", " ", "{">> \o Repeat("\n", MaxBlank)},
                        i \in Indents, s \in Statements_round} :
                validate_syntax(x).ok}

(***************************************************************************)
(* The state machine: a transpiler is constructed, one of its functions is *)
(* called on a source, and the call returns.  transpile of transpiler.rs   *)
(* can be called again on the same source: each call builds the map of     *)
(* get_all_keywords anew, while the map of get_function_keywords belongs   *)
(* to the transpiler and keeps its order.                                  *)
(***************************************************************************)
Functions == {"validate_syntax", "transpile", "validate_syntax_core", "transpile_core",
              "reverse_transpile", "round_trip", "analyze_conversion_quality"}

NoVerdict == [ok |-> FALSE, kind |-> "", check |-> "", token |-> <<>>, line |-> 0]

Init ==
    /\ call \in Functions
    /\ source \in Sources(call)
    /\ pc = "called"
    /\ calls = 0
    /\ function_order \in
           IF call = "transpile_core"
           THEN IterationOrders({function_declarations[k] : k \in DOMAIN function_declarations})
           ELSE {<<>>}
    /\ verdict = NoVerdict
    /\ output = <<>>
    /\ previous = <<>>
    /\ report = NoReport
    /\ files = <<>> /\ dirs = {} /\ tasks = <<>> /\ watcher = NoWatcher

ValidateSyntax ==
    /\ pc = "called" /\ call = "validate_syntax"
    /\ verdict' = validate_syntax(source)
    /\ pc' = "returned"
    /\ calls' = calls + 1
    /\ UNCHANGED <<source, call, function_order, output, previous, report, files, dirs, tasks, watcher>>

Transpile ==
    /\ pc = "called" /\ call = "transpile"
    /\ verdict' = IF transpile_compiled THEN Ok ELSE RegexError
    /\ output' = IF transpile_compiled THEN transpile(source) ELSE output
    /\ pc' = "returned"
    /\ calls' = calls + 1
    /\ UNCHANGED <<source, call, function_order, previous, report, files, dirs, tasks, watcher>>

ValidateSyntaxCore ==
    /\ pc = "called" /\ call = "validate_syntax_core"
    /\ verdict' = validate_syntax_core(source)
    /\ pc' = "returned"
    /\ calls' = calls + 1
    /\ UNCHANGED <<source, call, function_order, output, previous, report, files, dirs, tasks, watcher>>

TranspileCore ==
    /\ call = "transpile_core" /\ calls < MaxCalls
    /\ \E all_keywords \in IterationOrders(occurring(get_all_keywords, source)) :
           output' = transpile_core(source, function_order, all_keywords)
    /\ previous' = output
    /\ pc' = "returned"
    /\ calls' = calls + 1
    /\ UNCHANGED <<source, call, function_order, verdict, report, files, dirs, tasks, watcher>>

\* Each call iterates js_to_ns_map in some order.
ReverseTranspile ==
    /\ call = "reverse_transpile" /\ calls < MaxCalls
    /\ \E entries \in IterationOrders(occurring_keys(js_to_ns_map, source)) :
           output' = reverse_transpile(source, entries)
    /\ previous' = output
    /\ pc' = "returned"
    /\ calls' = calls + 1
    /\ UNCHANGED <<source, call, function_order, verdict, report, files, dirs, tasks, watcher>>

\* A source validate_syntax accepted is transpiled, the result is reverse
\* transpiled and what comes back is validated: previous is the JavaScript,
\* output the dialect text that came back, verdict what validate_syntax
\* says of it.
RoundTrip ==
    /\ pc = "called" /\ call = "round_trip"
    /\ previous' = transpile(source)
    /\ \E entries \in IterationOrders(occurring_keys(js_to_ns_map, transpile(source))) :
           output' = reverse_transpile(transpile(source), entries)
    /\ verdict' = validate_syntax(output')
    /\ pc' = "returned"
    /\ calls' = calls + 1
    /\ UNCHANGED <<source, call, function_order, report, files, dirs, tasks, watcher>>

\* handle_convert with --report: the file is reverse transpiled and the
\* report is made of the file and of what came out
AnalyzeConversionQuality ==
    /\ pc = "called" /\ call = "analyze_conversion_quality"
    /\ \E entries \in IterationOrders(occurring_keys(js_to_ns_map, source)) :
           output' = reverse_transpile(source, entries)
    /\ report' = analyze_conversion_quality(source, output')
    /\ pc' = "returned"
    /\ calls' = calls + 1
    /\ UNCHANGED <<source, call, function_order, verdict, previous, files, dirs, tasks, watcher>>

Next ==
    \/ ValidateSyntax \/ Transpile \/ ValidateSyntaxCore \/ TranspileCore
    \/ ReverseTranspile \/ RoundTrip \/ AnalyzeConversionQuality

Spec == Init /\ [][Next]_vars

(***************************************************************************)
(* Files.  A path is a directory (its components), a file stem and an      *)
(* extension; the file system is the function files from the paths there   *)
(* are to what the files hold, and the set dirs of directories.            *)
(***************************************************************************)
PathBuf(dir, stem, ext) == [dir |-> dir, stem |-> stem, ext |-> ext]

with_extension(path, ext) == [path EXCEPT !.ext = ext]

\* dir.join(path), of a relative path
join(dir, path) == [path EXCEPT !.dir = dir \o @]

\* path.strip_prefix(base), of a path under base
strip_prefix(path, base) == [path EXCEPT !.dir = SubSeq(@, Len(base) + 1, Len(@))]

\* is the directory dir, or a directory under it
is_under(dir, base) == Len(base) <= Len(dir) /\ SubSeq(dir, 1, Len(base)) = base

file_stem(path) == path.stem

parent(path) == path.dir

write(fs, path, contents) ==
    [p \in DOMAIN fs \cup {path} |-> IF p = path THEN contents ELSE fs[p]]

remove_file(fs, path) == [p \in DOMAIN fs \ {path} |-> fs[p]]

remove_dir_all(fs, dir) == [p \in {q \in DOMAIN fs : ~is_under(q.dir, dir)} |-> fs[p]]

\* std::io::Error as NullScriptError::Io
IoError == [ok |-> FALSE, kind |-> "Io", check |-> "", token |-> <<>>, line |-> 0]

(***************************************************************************)
(* The build and run commands of the handler, on                           *)
(* compiler::transpiler::NullScriptTranspiler                              *)
(***************************************************************************)
MaxFiles == 2      \* .ns files in the directory a command works on

\* the directory the commands work on, and the directory they build into
input_dir == <<"src">>

output_dir == <<"dist">>

\* the .ns files there can be under input_dir: two of them have the same
\* stem in different directories
InputPaths ==
    <<PathBuf(<<"src">>, "a", "ns"), PathBuf(<<"src", "sub">>, "a", "ns"),
      PathBuf(<<"src">>, "b", "ns"), PathBuf(<<"src", "sub">>, "b", "ns")>>

InputFiles == {InputPaths[i] : i \in 1..MaxFiles}

\* what the .ns files hold
BuildSources == {
    <<"let", " ", "a", " ", "=", " ", "1", ";">>,
    <<"run", " ", "f", "(", "a", ")", " ", "{">>,
    <<"const", " ", "x", " ", "=", " ", "1", ";">>,
    <<"function", " ", "g", "(", ")", " ", "{">> }

\* what an output file left by an earlier run of a command holds
Stale == <<"stale">>

\* the path of the output of a .ns file: handle_run writes next to the file,
\* handle_build on a file into the output directory under the stem of the
\* file, build_directory into the output directory under the relative path
output_path(command, ns_file) ==
    CASE command = "run" -> with_extension(ns_file, "temp.js")
      [] command = "build_file" -> PathBuf(output_dir, file_stem(ns_file), "js")
      [] command = "build_directory" ->
             join(output_dir, with_extension(strip_prefix(ns_file, input_dir), "js"))

NoTask ==
    [command |-> "", path |-> PathBuf(<<>>, "", ""), pc |-> "called", todo |-> <<>>,
     ns_path |-> PathBuf(<<>>, "", ""), js_path |-> PathBuf(<<>>, "", ""),
     source |-> <<>>, transpiled |-> <<>>, result |-> NoVerdict, outputs |-> <<>>]

Commands ==
    {[NoTask EXCEPT !.command = "build_directory", !.path = PathBuf(<<>>, "src", "")]}
    \cup {[NoTask EXCEPT !.command = c, !.path = f] :
              c \in {"build_file", "run"}, f \in InputFiles}
    \cup {[NoTask EXCEPT !.command = "run", !.path = PathBuf(<<"src">>, "missing", "ns")]}

InitBuild ==
    /\ source = <<>> /\ call = "" /\ pc = "" /\ calls = 0 /\ function_order = <<>>
    /\ verdict = NoVerdict /\ output = <<>> /\ previous = <<>> /\ report = NoReport
    /\ watcher = NoWatcher
    /\ \E command \in Commands :
           /\ tasks = <<command>>
           /\ \E contents \in [InputFiles -> BuildSources], stale \in BOOLEAN :
                  files = [p \in InputFiles
                                \cup {output_path(command.command, f) :
                                          f \in {g \in InputFiles : stale}} |->
                              IF p \in InputFiles THEN contents[p] ELSE Stale]
    /\ dirs = {<<"src">>, <<"src", "sub">>}

\* transpile_to_js returned Ok to the command that called it
transpiled_to_js(k) ==
    CASE k.command = "build_directory" ->
             [k EXCEPT !.outputs = Append(@, k.js_path), !.pc = "walk"]
      [] k.command = "build_file" -> [k EXCEPT !.result = Ok, !.pc = "returned"]
      [] k.command = "run" -> [k EXCEPT !.pc = "execute"]

\* the Err is kept and the loop goes on with the next file
skipped(k, error) == [k EXCEPT !.result = error, !.pc = "walk"]

\* ? on an Err: transpile_to_js and the command that called it return it
failed(k, error) == [k EXCEPT !.result = error, !.pc = "returned"]

\* handle_build on a directory enters build_directory, on a file it calls
\* transpile_to_js; WalkDir yields the .ns files in some order
HandleBuild(t) ==
    /\ tasks[t].pc = "called"
    /\ \/ /\ tasks[t].command = "build_directory"
          /\ \E entries \in IterationOrders({f \in DOMAIN files : f.ext = "ns"}) :
                 tasks' = [tasks EXCEPT ![t] = [@ EXCEPT !.todo = entries, !.pc = "walk"]]
       \/ /\ tasks[t].command = "build_file"
          /\ tasks' = [tasks EXCEPT ![t] =
                 [@ EXCEPT !.ns_path = tasks[t].path,
                           !.js_path = PathBuf(output_dir, file_stem(tasks[t].path), "js"),
                           !.pc = "read"]]
    /\ UNCHANGED <<source, call, pc, calls, function_order, verdict, output, previous,
                   report, files, dirs,
                   watcher>>

HandleRun(t) ==
    /\ tasks[t].pc = "called" /\ tasks[t].command = "run"
    /\ tasks' = [tasks EXCEPT ![t] =
           [@ EXCEPT !.ns_path = tasks[t].path,
                     !.js_path = with_extension(tasks[t].path, "temp.js"),
                     !.pc = "read"]]
    /\ UNCHANGED <<source, call, pc, calls, function_order, verdict, output, previous,
                   report, files, dirs,
                   watcher>>

\* the head of the loop of build_directory
BuildDirectory(t) ==
    /\ tasks[t].pc = "walk"
    /\ tasks' = [tasks EXCEPT ![t] =
           IF tasks[t].todo = <<>> THEN [@ EXCEPT !.result = Ok, !.pc = "returned"]
           ELSE [@ EXCEPT !.ns_path = Head(tasks[t].todo),
                          !.js_path = join(output_dir,
                                          with_extension(strip_prefix(Head(tasks[t].todo),
                                                                      input_dir), "js")),
                          !.todo = Tail(@),
                          !.pc = "read"]]
    /\ UNCHANGED <<source, call, pc, calls, function_order, verdict, output, previous,
                   report, files, dirs,
                   watcher>>

\* transpile_to_js: fs::read_to_string(ns_path).await?
ToJsRead(t) ==
    /\ tasks[t].pc = "read"
    /\ tasks' = [tasks EXCEPT ![t] =
           IF tasks[t].ns_path \in DOMAIN files
           THEN [@ EXCEPT !.source = files[tasks[t].ns_path], !.pc = "validate"]
           ELSE failed(@, IoError)]
    /\ UNCHANGED <<source, call, pc, calls, function_order, verdict, output, previous,
                   report, files, dirs,
                   watcher>>

\* the call of validate_syntax without the ?
ToJsValidateUnchecked(t) ==
    /\ tasks[t].pc = "validate"
    /\ tasks' = [tasks EXCEPT ![t] = [@ EXCEPT !.pc = "transpile"]]
    /\ UNCHANGED <<source, call, pc, calls, function_order, verdict, output, previous,
                   report, files, dirs,
                   watcher>>

\* transpile_to_js: self.validate_syntax(&source, Some(ns_path))?
ToJsValidate(t) ==
    /\ tasks[t].pc = "validate"
    /\ tasks' = [tasks EXCEPT ![t] =
           IF validate_syntax(tasks[t].source).ok THEN [@ EXCEPT !.pc = "transpile"]
           ELSE failed(@, validate_syntax(tasks[t].source))]
    /\ UNCHANGED <<source, call, pc, calls, function_order, verdict, output, previous,
                   report, files, dirs,
                   watcher>>

\* transpile_to_js: let transpiled = self.transpile(&source)?
ToJsTranspile(t) ==
    /\ tasks[t].pc = "transpile"
    /\ tasks' = [tasks EXCEPT ![t] =
           IF transpile_compiled
           THEN [@ EXCEPT !.transpiled = transpile(tasks[t].source), !.pc = "create_dir"]
           ELSE failed(@, RegexError)]
    /\ UNCHANGED <<source, call, pc, calls, function_order, verdict, output, previous,
                   report, files, dirs,
                   watcher>>

\* transpile_to_js: fs::create_dir_all(parent).await?
ToJsCreateDirAll(t) ==
    /\ tasks[t].pc = "create_dir"
    /\ dirs' = dirs \cup {parent(tasks[t].js_path)}
    /\ tasks' = [tasks EXCEPT ![t] = [@ EXCEPT !.pc = "write"]]
    /\ UNCHANGED <<source, call, pc, calls, function_order, verdict, output, previous,
                   report, files,
                   watcher>>

\* transpile_to_js: fs::write(js_path, &transpiled).await?, and Ok(()) to the
\* command
ToJsWrite(t) ==
    /\ tasks[t].pc = "write"
    /\ files' = write(files, tasks[t].js_path, tasks[t].transpiled)
    /\ tasks' = [tasks EXCEPT ![t] = transpiled_to_js(@)]
    /\ UNCHANGED <<source, call, pc, calls, function_order, verdict, output, previous,
                   report, dirs,
                   watcher>>

\* handle_run: node runs the file written, and the file is removed
HandleRunExecute(t) ==
    /\ tasks[t].pc = "execute"
    /\ files' = remove_file(files, tasks[t].js_path)
    /\ tasks' = [tasks EXCEPT ![t] = [@ EXCEPT !.result = Ok, !.pc = "returned"]]
    /\ UNCHANGED <<source, call, pc, calls, function_order, verdict, output, previous,
                   report, dirs,
                   watcher>>

\* one command runs
NextBuild ==
    \/ HandleBuild(1) \/ HandleRun(1) \/ BuildDirectory(1) \/ HandleRunExecute(1)
    \/ ToJsRead(1) \/ ToJsValidate(1) \/ ToJsTranspile(1)
    \/ ToJsCreateDirAll(1) \/ ToJsWrite(1)

SpecBuild == InitBuild /\ [][NextBuild]_vars

(***************************************************************************)
(* transpile_file and transpile_to_js of transpiler.rs (and of its copy    *)
(* compiler/transpiler.rs), called on two files at the same time.  A call  *)
(* gives way to the other at every await and while tsc runs.               *)
(***************************************************************************)
\* std::env::temp_dir().join("nullscript-temp")
temp_dir == <<"tmp", "nullscript-temp">>

\* temp_dir.join(file_stem + ".ts")
temp_ts_path(ns_path) == PathBuf(temp_dir, file_stem(ns_path), "ts")

\* temp_dir.join(file_stem + ".js")
temp_js_path(ns_path) == PathBuf(temp_dir, file_stem(ns_path), "js")

tsconfig_path == PathBuf(temp_dir, "tsconfig", "json")

\* the tsconfig.json written: its include names the .ts file
tsconfig(ns_path) == [include |-> temp_ts_path(ns_path)]

\* what tsc emits for a .ts file: the compiler is no part of the repository,
\* its output is known by the text it was made of
tsc_emit(ts) == [emitted_from |-> ts]

\* parse_typescript_error of what tsc printed
TscError == [ok |-> FALSE, kind |-> "TypeScript", check |-> "", token |-> <<>>, line |-> 0]

\* "JavaScript file was not generated by TypeScript compiler"
NotGenerated == [ok |-> FALSE, kind |-> "Transpile", check |-> "", token |-> <<>>, line |-> 0]

\* what the two .ns files hold
ParallelSources == {
    <<"maybe", " ", "y", " ", "=", " ", "fr", ";">>,
    <<"definitely", " ", "x", " ", "=", " ", "1", ";">>,
    <<"const", " ", "x", " ", "=", " ", "1", ";">> }

\* the two files: in different directories, with the same stem or not
ParallelFiles ==
    {<<PathBuf(<<"lib">>, "x", "ns"), PathBuf(<<"app">>, stem, "ns")>> : stem \in {"x", "y"}}

TaskIds == {1, 2}

InitParallel ==
    /\ source = <<>> /\ call = "" /\ pc = "" /\ calls = 0
    /\ function_order \in
           IterationOrders({function_declarations[k] : k \in DOMAIN function_declarations})
    /\ verdict = NoVerdict /\ output = <<>> /\ previous = <<>> /\ report = NoReport
    /\ watcher = NoWatcher
    /\ \E ns \in ParallelFiles, contents \in [TaskIds -> ParallelSources],
          in_the_way \in SUBSET {PathBuf(<<>>, "dist", "")} :
           /\ files = [p \in {ns[t] : t \in TaskIds} \cup in_the_way |->
                          IF p = ns[1] THEN contents[1]
                          ELSE IF p = ns[2] THEN contents[2] ELSE Stale]
           /\ tasks = [t \in TaskIds |->
                          [pc |-> "create_temp", ns_path |-> ns[t],
                           js_path |-> join(output_dir, with_extension(ns[t], "js")),
                           source |-> <<>>, transpiled |-> <<>>,
                           result |-> NoVerdict]]
    /\ dirs = {<<"lib">>, <<"app">>}

\* the call goes on to pc
goes(k, pc_next) == [k EXCEPT !.pc = pc_next]

\* the call goes on to clean up with the result it will return
ends(k, result) == [k EXCEPT !.result = result, !.pc = "clean_up"]

\* ? on an Err inside transpile_to_js: it returns at once
returns(k, result) == [k EXCEPT !.result = result, !.pc = "returned"]

\* transpile_to_js: fs::create_dir_all(&temp_dir).await?
TempCreateDirAll(t) ==
    /\ tasks[t].pc = "create_temp"
    /\ dirs' = dirs \cup {temp_dir}
    /\ tasks' = [tasks EXCEPT ![t] = goes(@, "read")]
    /\ UNCHANGED <<source, call, pc, calls, function_order, verdict, output, previous,
                   report, files,
                   watcher>>

\* transpile_file: the source is read, validated and transpiled; an Err makes
\* transpile_to_js clean up and return it
TranspileFileRead(t) ==
    /\ tasks[t].pc = "read"
    /\ \E all_keywords \in
              IterationOrders(occurring(get_all_keywords, files[tasks[t].ns_path])) :
           tasks' = [tasks EXCEPT ![t] =
               IF validate_syntax_core(files[tasks[t].ns_path]).ok
               THEN [@ EXCEPT !.source = files[tasks[t].ns_path],
                              !.transpiled = transpile_core(files[tasks[t].ns_path],
                                                            function_order, all_keywords),
                              !.pc = "create_parent"]
               ELSE [@ EXCEPT !.source = files[tasks[t].ns_path],
                              !.result = validate_syntax_core(files[tasks[t].ns_path]),
                              !.pc = "clean_up"]]
    /\ UNCHANGED <<source, call, pc, calls, function_order, verdict, output, previous,
                   report, files, dirs,
                   watcher>>

\* transpile_file: fs::create_dir_all(parent).await?
TranspileFileCreateDirAll(t) ==
    /\ tasks[t].pc = "create_parent"
    /\ dirs' = dirs \cup {temp_dir}
    /\ tasks' = [tasks EXCEPT ![t] = goes(@, "write_ts")]
    /\ UNCHANGED <<source, call, pc, calls, function_order, verdict, output, previous,
                   report, files,
                   watcher>>

\* transpile_file: fs::write(output_path, &transpiled).await?
TranspileFileWrite(t) ==
    /\ tasks[t].pc = "write_ts"
    /\ files' = IF temp_dir \in dirs
                THEN write(files, temp_ts_path(tasks[t].ns_path), tasks[t].transpiled)
                ELSE files
    /\ tasks' = [tasks EXCEPT ![t] =
           IF temp_dir \in dirs THEN goes(@, "write_tsconfig") ELSE ends(@, IoError)]
    /\ UNCHANGED <<source, call, pc, calls, function_order, verdict, output, previous,
                   report, dirs,
                   watcher>>

\* transpile_to_js: fs::write(&tsconfig_path, ...).await?
WriteTsconfig(t) ==
    /\ tasks[t].pc = "write_tsconfig"
    /\ files' = IF temp_dir \in dirs
                THEN write(files, tsconfig_path, tsconfig(tasks[t].ns_path))
                ELSE files
    /\ tasks' = [tasks EXCEPT ![t] =
           IF temp_dir \in dirs THEN goes(@, "tsc") ELSE returns(@, IoError)]
    /\ UNCHANGED <<source, call, pc, calls, function_order, verdict, output, previous,
                   report, dirs,
                   watcher>>

\* the files after tsc --project tsconfig.json has run in temp_dir: it
\* compiles the file the tsconfig.json that is there includes
tsc_output(fs) ==
    IF tsconfig_path \in DOMAIN fs /\ fs[tsconfig_path].include \in DOMAIN fs
    THEN write(fs, with_extension(fs[tsconfig_path].include, "js"),
               tsc_emit(fs[fs[tsconfig_path].include]))
    ELSE fs

\* transpile_to_js: Command::new("tsc") ... .output()
RunTsc(t) ==
    /\ tasks[t].pc = "tsc"
    /\ files' = IF temp_dir \in dirs THEN tsc_output(files) ELSE files
    /\ tasks' = [tasks EXCEPT ![t] =
           IF temp_dir \notin dirs THEN ends(@, IoError)
           ELSE IF tsconfig_path \in DOMAIN files
                       /\ files[tsconfig_path].include \in DOMAIN files
                THEN goes(@, "metadata")
                ELSE ends(@, TscError)]
    /\ UNCHANGED <<source, call, pc, calls, function_order, verdict, output, previous,
                   report, dirs,
                   watcher>>

\* transpile_to_js: fs::metadata(&temp_js_path).await
TempJsMetadata(t) ==
    /\ tasks[t].pc = "metadata"
    /\ tasks' = [tasks EXCEPT ![t] =
           IF temp_js_path(tasks[t].ns_path) \in DOMAIN files THEN goes(@, "create_out")
           ELSE ends(@, NotGenerated)]
    /\ UNCHANGED <<source, call, pc, calls, function_order, verdict, output, previous,
                   report, files, dirs,
                   watcher>>

\* a directory cannot be made under a path that is a file
not_a_directory(fs, dir) ==
    \E i \in 1..Len(dir) : PathBuf(SubSeq(dir, 1, i - 1), dir[i], "") \in DOMAIN fs

\* transpile_to_js: fs::create_dir_all(parent).await?
JsCreateDirAll(t) ==
    /\ tasks[t].pc = "create_out"
    /\ dirs' = IF not_a_directory(files, parent(tasks[t].js_path)) THEN dirs
               ELSE dirs \cup {parent(tasks[t].js_path)}
    /\ tasks' = [tasks EXCEPT ![t] =
           IF not_a_directory(files, parent(tasks[t].js_path)) THEN returns(@, IoError)
           ELSE goes(@, "copy")]
    /\ UNCHANGED <<source, call, pc, calls, function_order, verdict, output, previous,
                   report, files,
                   watcher>>

\* transpile_to_js: fs::copy(&temp_js_path, js_path).await?
CopyJs(t) ==
    /\ tasks[t].pc = "copy"
    /\ files' = IF temp_js_path(tasks[t].ns_path) \in DOMAIN files
                THEN write(files, tasks[t].js_path, files[temp_js_path(tasks[t].ns_path)])
                ELSE files
    /\ tasks' = [tasks EXCEPT ![t] =
           IF temp_js_path(tasks[t].ns_path) \in DOMAIN files THEN ends(@, Ok)
           ELSE returns(@, IoError)]
    /\ UNCHANGED <<source, call, pc, calls, function_order, verdict, output, previous,
                   report, dirs,
                   watcher>>

\* transpile_to_js: let _ = fs::remove_dir_all(&temp_dir).await, and the
\* result is returned
TempCleanUp(t) ==
    /\ tasks[t].pc = "clean_up"
    /\ files' = remove_dir_all(files, temp_dir)
    /\ dirs' = dirs \ {temp_dir}
    /\ tasks' = [tasks EXCEPT ![t] = goes(@, "returned")]
    /\ UNCHANGED <<source, call, pc, calls, function_order, verdict, output, previous,
                   report,
                   watcher>>

NextParallel ==
    \/ \E t \in TaskIds : TempCreateDirAll(t)
    \/ \E t \in TaskIds : TranspileFileRead(t)
    \/ \E t \in TaskIds : TranspileFileCreateDirAll(t)
    \/ \E t \in TaskIds : TranspileFileWrite(t)
    \/ \E t \in TaskIds : WriteTsconfig(t)
    \/ \E t \in TaskIds : RunTsc(t)
    \/ \E t \in TaskIds : TempJsMetadata(t)
    \/ \E t \in TaskIds : JsCreateDirAll(t)
    \/ \E t \in TaskIds : CopyJs(t)
    \/ \E t \in TaskIds : TempCleanUp(t)

SpecParallel == InitParallel /\ [][NextParallel]_vars

(***************************************************************************)
(* NullScriptConfigSchema of config/schema.rs.  A JSON document is the     *)
(* serde_json::Value it parses to: a string, an array or an object with    *)
(* its keys.                                                               *)
(***************************************************************************)
String(s) == [t |-> "string", v |-> s]

Array(elements) == [t |-> "array", v |-> elements]

Object(members) == [t |-> "object", v |-> members]

\* a member added to an object
with_member(obj, key, value) ==
    Object([k \in DOMAIN obj.v \cup {key} |-> IF k = key THEN value ELSE obj.v[k]])

\* str::trim().is_empty() on the strings the documents hold
is_blank(s) == s \in {"", " "}

ConfigError(message, field) ==
    [ok |-> FALSE, kind |-> "Config", check |-> message, token |-> field, line |-> 0]

\* the keys of an object that are not allowed, none when the value is no
\* object
unknown_keys(value, allowed) ==
    IF value.t = "object" THEN DOMAIN value.v \ allowed ELSE {}

\* obj.get(key) when the value is an object that has the key
get(value, key) ==
    IF value.t = "object" /\ key \in DOMAIN value.v THEN value.v[key] ELSE String("")

\* validate_no_extra_fields: the keys of the root, then those of
\* compilerOptions when it is an object, then those of its reports when it is
\* an object
validate_no_extra_fields(value) ==
    IF unknown_keys(value, {"compilerOptions", "include", "exclude"}) # {}
    THEN ConfigError("Unknown field in nsconfig.json",
             CHOOSE k \in unknown_keys(value, {"compilerOptions", "include", "exclude"}) : TRUE)
    ELSE IF unknown_keys(get(value, "compilerOptions"), {"rootDir", "outDir", "reports"}) # {}
    THEN ConfigError("Unknown field in compilerOptions",
             CHOOSE k \in unknown_keys(get(value, "compilerOptions"),
                                       {"rootDir", "outDir", "reports"}) : TRUE)
    ELSE IF unknown_keys(get(get(value, "compilerOptions"), "reports"),
                         {"dir", "defaultFormat"}) # {}
    THEN ConfigError("Unknown field in reports",
             CHOOSE k \in unknown_keys(get(get(value, "compilerOptions"), "reports"),
                                       {"dir", "defaultFormat"}) : TRUE)
    ELSE Ok

\* Deserialize of a struct, as serde derives it and serde_json drives it: an
\* object gives the fields by their names, keys that name no field are
\* passed over, and an array of as many elements as the struct has fields
\* gives them by position
has_fields(value, names) ==
    \/ value.t = "object" /\ \A k \in DOMAIN names : names[k] \in DOMAIN value.v
    \/ value.t = "array" /\ Len(value.v) = Len(names)

field(value, names, k) ==
    IF value.t = "object" THEN value.v[names[k]] ELSE value.v[k]

is_string(value) == value.t = "string"

is_strings(value) ==
    value.t = "array" /\ \A k \in DOMAIN value.v : is_string(value.v[k])

strings(value) == [k \in DOMAIN value.v |-> value.v[k].v]

reports_fields == <<"dir", "defaultFormat">>

compiler_fields == <<"rootDir", "outDir", "reports">>

root_fields == <<"compilerOptions", "include", "exclude">>

is_reports(value) ==
    /\ has_fields(value, reports_fields)
    /\ is_string(field(value, reports_fields, 1))
    /\ is_string(field(value, reports_fields, 2))

is_compiler_options(value) ==
    /\ has_fields(value, compiler_fields)
    /\ is_string(field(value, compiler_fields, 1))
    /\ is_string(field(value, compiler_fields, 2))
    /\ is_reports(field(value, compiler_fields, 3))

is_schema(value) ==
    /\ has_fields(value, root_fields)
    /\ is_compiler_options(field(value, root_fields, 1))
    /\ is_strings(field(value, root_fields, 2))
    /\ is_strings(field(value, root_fields, 3))

ReportsConfig(value) ==
    [dir |-> field(value, reports_fields, 1).v,
     default_format |-> field(value, reports_fields, 2).v]

CompilerOptions(value) ==
    [root_dir |-> field(value, compiler_fields, 1).v,
     out_dir |-> field(value, compiler_fields, 2).v,
     reports |-> ReportsConfig(field(value, compiler_fields, 3))]

\* serde_json::from_str into NullScriptConfigSchema, of a value is_schema
from_str(value) ==
    [compiler_options |-> CompilerOptions(field(value, root_fields, 1)),
     include |-> strings(field(value, root_fields, 2)),
     exclude |-> strings(field(value, root_fields, 3))]

supported_formats == {"html", "json", "text"}

any_blank(patterns) == \E k \in DOMAIN patterns : is_blank(patterns[k])

validate_field_values(config) ==
    IF is_blank(config.compiler_options.root_dir)
    THEN ConfigError("compilerOptions.rootDir cannot be empty", "rootDir")
    ELSE IF is_blank(config.compiler_options.out_dir)
    THEN ConfigError("compilerOptions.outDir cannot be empty", "outDir")
    ELSE IF is_blank(config.compiler_options.reports.dir)
    THEN ConfigError("compilerOptions.reports.dir cannot be empty", "dir")
    ELSE IF config.compiler_options.reports.default_format \notin supported_formats
    THEN ConfigError("compilerOptions.reports.defaultFormat must be one of",
                     "defaultFormat")
    ELSE IF Len(config.include) = 0
    THEN ConfigError("include array cannot be empty", "include")
    ELSE IF any_blank(config.include)
    THEN ConfigError("include patterns cannot be empty strings", "include")
    ELSE IF any_blank(config.exclude)
    THEN ConfigError("exclude patterns cannot be empty strings", "exclude")
    ELSE Ok

\* validate_json: the Result, without the config
validate_json(json_content) ==
    IF ~validate_no_extra_fields(json_content).ok
    THEN validate_no_extra_fields(json_content)
    ELSE IF ~is_schema(json_content)
    THEN ConfigError("nsconfig.json structure doesn't match required schema", "")
    ELSE validate_field_values(from_str(json_content))

\* NullScriptConfigSchema::default()
default_config ==
    [compiler_options |->
         [root_dir |-> "./src", out_dir |-> "./dist",
          reports |-> [dir |-> "reports", default_format |-> "html"]],
     include |-> <<"src/**/*.ns">>,
     exclude |-> <<"node_modules", "dist", "reports">>]

array_of(patterns) == Array([k \in DOMAIN patterns |-> String(patterns[k])])

\* to_pretty_json: Serialize with the renamed fields
to_pretty_json(config) ==
    Object([k \in {"compilerOptions", "include", "exclude"} |->
        CASE k = "compilerOptions" ->
                 Object([c \in {"rootDir", "outDir", "reports"} |->
                     CASE c = "rootDir" -> String(config.compiler_options.root_dir)
                       [] c = "outDir" -> String(config.compiler_options.out_dir)
                       [] c = "reports" ->
                              Object([r \in {"dir", "defaultFormat"} |->
                                  IF r = "dir"
                                  THEN String(config.compiler_options.reports.dir)
                                  ELSE String(config.compiler_options.reports.default_format)])])
          [] k = "include" -> array_of(config.include)
          [] k = "exclude" -> array_of(config.exclude)])

\* the documents validated: the default one with another format, root
\* directory or include list, with a key more in the root, in compilerOptions
\* or in reports, and with a struct written as the array of its fields
\* or left out
in_form(obj, names, form) ==
    CASE form = "object" -> obj
      [] form = "array" -> Array([k \in DOMAIN names |-> obj.v[names[k]]])
      [] form = "string" -> String("")

with_extra(value, extra) ==
    IF extra /\ value.t = "object" THEN with_member(value, "extraField", String("x"))
    ELSE value

reports_document(format, form, extra) ==
    in_form(with_extra(Object([r \in {"dir", "defaultFormat"} |->
                                  IF r = "dir" THEN String("reports") ELSE String(format)]),
                       extra),
            reports_fields \o (IF extra THEN <<"extraField">> ELSE <<>>), form)

compiler_document(root_dir, reports, form, extra) ==
    in_form(with_extra(Object([c \in {"rootDir", "outDir", "reports"} |->
                                  CASE c = "rootDir" -> String(root_dir)
                                    [] c = "outDir" -> String("./dist")
                                    [] c = "reports" -> reports]),
                       extra),
            compiler_fields, form)

root_document(compiler, include, form, extra) ==
    in_form(with_extra(Object([k \in {"compilerOptions", "include", "exclude"} |->
                                  CASE k = "compilerOptions" -> compiler
                                    [] k = "include" -> array_of(include)
                                    [] k = "exclude" -> array_of(default_config.exclude)]),
                       extra),
            root_fields, form)

Documents ==
    {root_document(
         compiler_document(root_dir,
                           reports_document(format, forms[3], extras[3]),
                           forms[2], extras[2]),
         include, forms[1], extras[1]) :
       format \in {"html", "json", "text", "invalid"},
       root_dir \in {"./src", " "},
       include \in {<<"src/**/*.ns">>, <<>>},
       forms \in {"object", "array"} \X {"object", "array", "string"} \X {"object", "array", "string"},
       extras \in BOOLEAN \X BOOLEAN \X BOOLEAN}

InitConfig ==
    /\ call = "validate_json"
    /\ source \in Documents
    /\ pc = "called" /\ calls = 0 /\ function_order = <<>>
    /\ verdict = NoVerdict /\ output = <<>> /\ previous = <<>> /\ report = NoReport
    /\ files = <<>> /\ dirs = {} /\ tasks = <<>> /\ watcher = NoWatcher

\* validate_json on the document: verdict is the Ok or the Err, output the
\* config of an Ok
ValidateJson ==
    /\ pc = "called" /\ call = "validate_json"
    /\ verdict' = validate_json(source)
    /\ output' = IF validate_json(source).ok THEN from_str(source) ELSE output
    /\ pc' = "returned"
    /\ calls' = calls + 1
    /\ UNCHANGED <<source, call, function_order, previous, report, files, dirs, tasks, watcher>>

NextConfig == ValidateJson

SpecConfig == InitConfig /\ [][NextConfig]_vars

(***************************************************************************)
(* Watch mode: TerminalWatcher of development/watcher.rs.  The watchers    *)
(* send a FileChangeEvent for every change an editor makes to a .ns file;  *)
(* the loop of start_change_processing receives them one at a time.  An    *)
(* Instant of last_changes is kept as the time gone by since it was taken, *)
(* up to debounce_timeout: the loop compares it with nothing else.         *)
(***************************************************************************)
MaxChanges == 3    \* changes made to the watched files while the watcher runs

debounce_timeout == 300

\* the sleep at the end of an iteration of the loop, in milliseconds
sleep_millis == 50

\* the .ns files under the watched paths
WatchFiles == {PathBuf(<<"src">>, "a", "ns"), PathBuf(<<"lib">>, "b", "ns")}

\* what an editor saves into them
WatchSources == {
    <<"run", " ", "f", "(", "a", ")", " ", "{">>,
    <<"let", " ", "a", " ", "=", " ", "1", ";">>,
    <<"const", " ", "x", " ", "=", " ", "1", ";">> }

\* transpile of what the watched files can hold
transpiled == [contents \in WatchSources |-> transpile(contents)]

FileChangeEvent(path, kind) == [path |-> path, kind |-> kind]

\* the output of a watched file: next to it, or in dist beside a parent
\* directory called src
watch_output_path(file_path) ==
    IF parent(file_path) # <<>> /\ parent(file_path)[Len(parent(file_path))] = "src"
    THEN PathBuf(SubSeq(parent(file_path), 1, Len(parent(file_path)) - 1) \o <<"dist">>,
                 file_stem(file_path), "js")
    ELSE with_extension(file_path, "js")

InitWatch ==
    /\ source = <<>> /\ call = "" /\ pc = "" /\ calls = 0 /\ function_order = <<>>
    /\ verdict = NoVerdict /\ output = <<>> /\ previous = <<>> /\ report = NoReport
    /\ files = <<>> /\ dirs = {<<"src">>, <<"lib">>} /\ tasks = <<>>
    /\ watcher = NoWatcher

\* handle_file_event: the change an editor made to a .ns file is sent to the
\* loop, a save as Created or Modified, a removal as Deleted
HandleFileEvent ==
    /\ calls < MaxChanges
    /\ \E path \in WatchFiles :
          \/ \E contents \in WatchSources :
                 /\ path \in DOMAIN files => files[path] # contents
                 /\ files' = write(files, path, contents)
                 /\ watcher' = [watcher EXCEPT !.change_receiver =
                        Append(@, FileChangeEvent(path,
                            IF path \in DOMAIN files THEN "Modified" ELSE "Created"))]
          \/ /\ path \in DOMAIN files
             /\ files' = remove_file(files, path)
             /\ watcher' = [watcher EXCEPT !.change_receiver =
                    Append(@, FileChangeEvent(path, "Deleted"))]
    /\ calls' = calls + 1
    /\ UNCHANGED <<source, call, pc, function_order, verdict, output, previous, report,
                   dirs, tasks>>

\* HashMap::insert
insert(map, key, value) ==
    [k \in DOMAIN map \cup {key} |-> IF k = key THEN value ELSE map[k]]

\* the Instants of last_changes after millis more milliseconds
later(last_changes, millis) ==
    [k \in DOMAIN last_changes |->
        IF last_changes[k] + millis < debounce_timeout THEN last_changes[k] + millis
        ELSE debounce_timeout]

\* the file system after TerminalWatcher::transpile_file: an Err of
\* read_to_string or of transpile is printed and nothing is written
transpile_file(fs, file_path) ==
    IF file_path \in DOMAIN fs /\ transpile_compiled
    THEN write(fs, watch_output_path(file_path), transpiled[fs[file_path]])
    ELSE fs

\* the file system after cleanup_output
cleanup_output(fs, file_path) ==
    IF watch_output_path(file_path) \in DOMAIN fs
    THEN remove_file(fs, watch_output_path(file_path))
    ELSE fs

\* the file system after handle_nullscript_change
handle_nullscript_change(fs, change) ==
    IF change.kind = "Deleted" THEN cleanup_output(fs, change.path)
    ELSE transpile_file(fs, change.path)

\* the debounce of the loop: the change is passed over
debounced(last_changes, change) ==
    /\ change.path \in DOMAIN last_changes
    /\ last_changes[change.path] < debounce_timeout

\* one iteration of the loop of start_change_processing: a change received
\* is passed over inside debounce_timeout, or handled; the iteration ends
\* with the sleep but for a change passed over
StartChangeProcessing ==
    /\ \E millis \in {sleep_millis, debounce_timeout} :
          IF watcher.change_receiver = <<>>
          THEN /\ watcher' = [watcher EXCEPT !.last_changes = later(@, millis)]
               /\ UNCHANGED <<files, dirs>>
          ELSE IF debounced(watcher.last_changes, Head(watcher.change_receiver))
          THEN /\ watcher' = [watcher EXCEPT !.change_receiver = Tail(@)]
               /\ UNCHANGED <<files, dirs>>
          ELSE /\ watcher' = [watcher EXCEPT
                      !.change_receiver = Tail(@),
                      !.last_changes =
                          later(insert(@, Head(watcher.change_receiver).path, 0), millis)]
               /\ files' = handle_nullscript_change(files, Head(watcher.change_receiver))
               /\ dirs' = IF /\ Head(watcher.change_receiver).kind # "Deleted"
                             /\ Head(watcher.change_receiver).path \in DOMAIN files
                             /\ transpile_compiled
                          THEN dirs \cup {parent(watch_output_path(
                                              Head(watcher.change_receiver).path))}
                          ELSE dirs
    /\ UNCHANGED <<source, call, pc, calls, function_order, verdict, output, previous,
                   report, tasks>>

NextWatch == HandleFileEvent \/ StartChangeProcessing

SpecWatch == InitWatch /\ [][NextWatch]_vars

\* the loop of start_change_processing never stops
SpecWatchLoop == SpecWatch /\ WF_vars(StartChangeProcessing)

(***************************************************************************)
(* The convert and complete commands of cli/handler.rs:                    *)
(* format_nullscript_code on the lines of a converted file, and            *)
(* handle_complete on a file, a line and a column.  A text handed to       *)
(* handle_complete is the sequence of its characters.                      *)
(***************************************************************************)
MaxFormatLines == 3    \* lines of a text handed to format_nullscript_code
MaxChars == 3          \* characters of a file handed to handle_complete
MaxColumn == 4         \* the greatest --line and --column given

\* i32::MIN
i32_MIN == -2147483647 - 1

\* i32::saturating_sub(1)
saturating_sub(level) == IF level = i32_MIN THEN level ELSE level - 1

\* a panic of the thread
Panic == [ok |-> FALSE, kind |-> "panic", check |-> "", token |-> <<>>, line |-> 0]

\* "    ".repeat(indent_level as usize): `as usize` of a negative i32 is
\* 2^64 + indent_level, and repeat of a count of which four times is more
\* than usize::MAX panics with "capacity overflow"
indent_panics(level) == level < 0

\* for line in lines: the formatted lines so far and the indent level, or the
\* panic of repeat
RECURSIVE format_lines(_, _, _, _)
format_lines(ls, k, indent_level, formatted_lines) ==
    IF k > Len(ls) THEN [panicked |-> FALSE, lines |-> formatted_lines]
    ELSE IF Trim(ls[k]) = <<>>
    THEN format_lines(ls, k + 1, indent_level, Append(formatted_lines, <<>>))
    ELSE IF indent_panics(IF Head(Trim(ls[k])) = "}" THEN saturating_sub(indent_level)
                          ELSE indent_level)
    THEN [panicked |-> TRUE, lines |-> formatted_lines]
    ELSE format_lines(ls, k + 1,
             (IF Head(Trim(ls[k])) = "}" THEN saturating_sub(indent_level)
              ELSE indent_level)
             + (IF Trim(ls[k])[Len(Trim(ls[k]))] = "{" THEN 1 ELSE 0),
             Append(formatted_lines,
                    Repeat(" ", 4 * (IF Head(Trim(ls[k])) = "}"
                                     THEN saturating_sub(indent_level)
                                     ELSE indent_level))
                    \o Trim(ls[k])))

\* str::lines: the text split at the line feeds, a carriage return at the
\* end of a line taken off, and no last line after a final line feed
str_lines(txt) ==
    LET parts == Split(txt, "\n")
        kept == IF parts[Len(parts)] = <<>> THEN SubSeq(parts, 1, Len(parts) - 1) ELSE parts
    IN  [k \in DOMAIN kept |->
            IF kept[k] # <<>> /\ kept[k][Len(kept[k])] = "\r"
            THEN SubSeq(kept[k], 1, Len(kept[k]) - 1) ELSE kept[k]]

\* formatted_lines.join("\n")
RECURSIVE join_lines(_)
join_lines(ls) ==
    IF ls = <<>> THEN <<>>
    ELSE IF Len(ls) = 1 THEN ls[1]
    ELSE ls[1] \o <<"\n">> \o join_lines(Tail(ls))

format_nullscript_code(code) == format_lines(str_lines(code), 1, 0, <<>>)

\* the lines of the converted files
FormatLines == {
    <<"}">>,
    <<"f", "(", ")", " ", "{">>,
    <<" ", "}", " ", "else", " ", "{">>,
    <<" ", " ", "x", ";", " ">>,
    <<" ", " ">> }

FormatTexts ==
    {join_lines(ls) : ls \in UNION {[1..n -> FormatLines] : n \in 1..MaxFormatLines}}

\* char::len_utf8 of the characters of the files: U+00E9 takes two bytes,
\* U+20AC three
len_utf8(c) ==
    CASE c = "U+00E9" -> 2
      [] c = "U+20AC" -> 3
      [] OTHER -> 1

\* str::len: the bytes of a text
RECURSIVE len(_)
len(txt) == IF txt = <<>> THEN 0 ELSE len_utf8(Head(txt)) + len(Tail(txt))

\* char::is_alphanumeric() || c == '_'
is_word_char(c) == c \in {"a", "_", "U+00E9"}

\* position += line_text.len() + 1 for the lines before line_index, and the
\* column
RECURSIVE position_of(_, _, _)
position_of(ls, line_index, column) ==
    IF line_index = 0 THEN column - 1
    ELSE len(Head(ls)) + 1 + position_of(Tail(ls), line_index - 1, column)

\* get_current_word: the start of the word going backwards
RECURSIVE word_start(_, _)
word_start(chars, start) ==
    IF start > 0 /\ start - 1 < Len(chars) /\ is_word_char(chars[start])
    THEN word_start(chars, start - 1) ELSE start

\* get_current_word: the end of the word going forwards
RECURSIVE word_end(_, _)
word_end(chars, end) ==
    IF end < Len(chars) /\ is_word_char(chars[end + 1])
    THEN word_end(chars, end + 1) ELSE end

\* chars[start..end] panics with end beyond the characters
get_current_word(text, position) ==
    IF word_end(text, position) > Len(text) THEN Panic
    ELSE [ok |-> TRUE,
          word |-> SubSeq(text, word_start(text, position) + 1, word_end(text, position))]

InvalidInput == [ok |-> FALSE, kind |-> "Io", check |-> "InvalidInput", token |-> <<>>, line |-> 0]

\* the files, lines and columns handed to handle_complete
CompleteArgs ==
    [content : UNION {[1..n -> {"a", " ", "\n", "U+00E9", "U+20AC"}] : n \in 0..MaxChars},
     line : 0..MaxColumn, column : 0..MaxColumn]

InitCli ==
    /\ \/ call = "format_nullscript_code" /\ source \in FormatTexts
       \/ call = "handle_complete" /\ source \in CompleteArgs
    /\ pc = "called" /\ calls = 0 /\ function_order = <<>>
    /\ verdict = NoVerdict /\ output = <<>> /\ previous = <<>> /\ report = NoReport
    /\ files = <<>> /\ dirs = {} /\ tasks = <<>> /\ watcher = NoWatcher

\* handle_convert with --format: the converted text is formatted
FormatNullscriptCode ==
    /\ pc = "called" /\ call = "format_nullscript_code"
    /\ verdict' = IF format_nullscript_code(source).panicked THEN Panic ELSE Ok
    /\ output' = join_lines(format_nullscript_code(source).lines)
    /\ pc' = "returned"
    /\ calls' = calls + 1
    /\ UNCHANGED <<source, call, function_order, previous, report, files, dirs, tasks,
                   watcher>>

\* handle_complete: the range checks, the position in the text, and
\* get_completions with get_current_word on it
HandleComplete ==
    /\ pc = "called" /\ call = "handle_complete"
    /\ IF \/ source.line = 0 \/ source.line > Len(str_lines(source.content))
          \/ source.column = 0
          \/ source.column > len(str_lines(source.content)[source.line]) + 1
       THEN verdict' = InvalidInput /\ output' = output
       ELSE /\ output' = position_of(str_lines(source.content), source.line - 1, source.column)
            /\ verdict' = IF get_current_word(source.content, output').ok THEN Ok
                          ELSE Panic
    /\ pc' = "returned"
    /\ calls' = calls + 1
    /\ UNCHANGED <<source, call, function_order, previous, report, files, dirs, tasks,
                   watcher>>

NextCli == FormatNullscriptCode \/ HandleComplete

SpecCli == InitCli /\ [][NextCli]_vars

(***************************************************************************)
(* Vocabulary of the properties                                            *)
(***************************************************************************)
Returned(f) == pc = "returned" /\ call = f

Lines(txt) == Split(txt, "\n")

LastLine(txt) == Lines(txt)[Len(Lines(txt))]

Words(txt) == {txt[i] : i \in DOMAIN txt}

\* the line is blank
Blank(line) == Trim(line) = <<>>

\* line k lies between a /* that opens an earlier line and a */ on a later line
InsideBlockComment(lines, k) ==
    \E i \in 1..(k - 1), j \in (k + 1)..Len(lines) :
        /\ StartsWith(Trim(lines[i]), <<"/", "*">>)
        /\ Contains(lines[j], <<"*", "/">>)
        /\ \A m \in i..k : ~Contains(lines[m], <<"*", "/">>)

\* the line, indentation aside, begins with const <identifier>
BeginsWithConst(line) == MatchAt(<<Sp(0), Lit("const"), Sp(1), Id>>, line, 1).ok

HasConstLine(txt) ==
    \E k \in DOMAIN Lines(txt) :
        BeginsWithConst(Lines(txt)[k]) /\ ~InsideBlockComment(Lines(txt), k)

\* the text holds no comment
NoComments(txt) == "/" \notin Words(txt)

\* the line, validated on its own, passes / is rejected for a reserved name
AloneOk(line) == validate_syntax(line).ok

DeclaresReserved(line) == validate_syntax(line).check = "reserved"

\* the check that rejects the line when it is validated on its own
AloneCheck(line) == validate_syntax(line).check

\* the first line that holds a forbidden canonical token, 0 when none does
FirstForbiddenLine(txt) ==
    FirstTrue([k \in DOMAIN Lines(txt) |->
        AloneCheck(Lines(txt)[k]) \in {"forbidden", "invalid", "annotation", "line"}])

\* where the // comment of a line starts: the first // with an even number of
\* string quotes in front of it; 0 when the line has no comment
CommentStart(line) ==
    FirstTrue([i \in DOMAIN line |->
        /\ i < Len(line) /\ line[i] = "/" /\ line[i + 1] = "/"
        /\ Cardinality({q \in 1..(i - 1) : line[q] = "\""}) % 2 = 0])

WithoutComment(line) ==
    IF CommentStart(line) = 0 THEN line ELSE SubSeq(line, 1, CommentStart(line) - 1)

\* the text with the // comment of every line taken away
CodeOnly(txt) == JoinLines([k \in DOMAIN Lines(txt) |-> WithoutComment(Lines(txt)[k])])

\* the line passes the validator f when validated on its own
PassesAlone(f, line) ==
    IF f = "validate_syntax" THEN validate_syntax(line).ok
    ELSE validate_syntax_core(line).ok

\* C1: validate_syntax on a source with a code line that begins with
\* const <identifier> (its other lines being clean) returns a Syntax error
\* whose message names const.
C1_ConstIsNamed ==
    (pc = "returned" /\ call \in {"validate_syntax", "validate_syntax_core"}
        /\ HasConstLine(source)
        /\ \A k \in DOMAIN Lines(source) :
               BeginsWithConst(Lines(source)[k]) \/ PassesAlone(call, Lines(source)[k]))
    => (~verdict.ok /\ verdict.kind = "Syntax" /\ verdict.token = <<"const">>)

\* C2: a declaration on any line whose declared name is a reserved keyword is
\* rejected with the reserved-keyword error (the other lines being clean).
C2_ReservedNameOnAnyLine ==
    (Returned("validate_syntax") /\ NoComments(source)
        /\ (\A k \in DOMAIN Lines(source) :
               AloneOk(Lines(source)[k]) \/ DeclaresReserved(Lines(source)[k]))
        /\ (\E k \in DOMAIN Lines(source) : DeclaresReserved(Lines(source)[k])))
    => (~verdict.ok /\ verdict.check = "reserved")

\* C3: a rejection for a forbidden canonical token reports the number of the
\* first line that holds one.
C3_LineOfFirstViolation ==
    (Returned("validate_syntax") /\ NoComments(source) /\ ~verdict.ok
        /\ verdict.check \in {"forbidden", "invalid", "annotation", "line"})
    => verdict.line = FirstForbiddenLine(source)

\* C4: lines that lie entirely inside a block comment never make
\* validate_syntax fail (the lines outside it being clean).
C4_BlockCommentIgnored ==
    (Returned("validate_syntax")
        /\ (\A k \in DOMAIN Lines(source) :
               InsideBlockComment(Lines(source), k) \/ AloneOk(Lines(source)[k]))
        /\ (\E k \in DOMAIN Lines(source) : InsideBlockComment(Lines(source), k)))
    => verdict.ok

\* the check that rejects the code of the line, "" when it passes
CodeCheck(line) == validate_syntax(WithoutComment(line)).check

CanonicalTokens(table) ==
    UNION {Words(table[k][2]) : k \in DOMAIN table} \ Aliases(table)

\* the canonical tokens of a text, in their order
RECURSIVE Canonical(_, _)
Canonical(txt, table) ==
    IF Len(txt) = 0 THEN <<>>
    ELSE (IF txt[1] \in CanonicalTokens(table) THEN <<txt[1]>> ELSE <<>>)
         \o Canonical(Tail(txt), table)

\* no word of the text is an alias that stands for something else
AlreadyCanonical(txt, table) ==
    \A k \in DOMAIN table : table[k][2] # <<table[k][1]>> => table[k][1] \notin Words(txt)

\* C6: transpile of a source that is one alias of the table (function
\* declaration and phrase-prefix aliases aside) holds the canonical token
\* and not the alias.
C6_AliasBecomesCanonical ==
    /\ Returned("transpile") =>
          \A k \in DOMAIN KEYWORDS :
              (source = <<KEYWORDS[k][1]>> /\ KEYWORDS[k][1] \notin {"run", "share"})
              => (Contains(output, KEYWORDS[k][2]) /\ KEYWORDS[k][1] \notin Words(output))
    /\ Returned("transpile_core") =>
          \A e \in get_all_keywords :
              (source = e[1] /\ Len(e[1]) = 1 /\ e[1] \notin {<<"feels">>, <<"orsomething">>})
              => (Contains(output, e[2]) /\ e[1][1] \notin Words(output))

\* C7: transpile of a source that is already canonical keeps its canonical
\* keywords and operators, and so does transpile of the output.
C7_CanonicalUntouched ==
    (Returned("transpile") /\ AlreadyCanonical(source, KEYWORDS))
    => /\ Canonical(output, KEYWORDS) = Canonical(source, KEYWORDS)
       /\ Canonical(transpile(output), KEYWORDS) = Canonical(output, KEYWORDS)

\* a function declaration with the alias
Declarations(alias) == {
    <<alias, " ", "f", "(", "a", ")", " ", "{">>,
    <<alias, " ", "g", "(", ")", " ", "{">> }

\* the text is the declaration d, at the indentation indent, under blank lines
\* and, when class_line is not empty, under the opening line of a class
DeclaredAt(txt, d, indent, class_line) ==
    /\ LastLine(txt) = indent \o d
    /\ \A k \in 1..(Len(Lines(txt)) - 1) :
           \/ Blank(Lines(txt)[k])
           \/ k = 1 /\ class_line # <<>> /\ Lines(txt)[1] = class_line

\* what C8 says of the alias of the function f, whose classes open with class_line
ByOwnIndentation(alias, class_line) ==
    \A d \in Declarations(alias) :
        /\ DeclaredAt(source, d, <<>>, <<>>)
               => LastLine(output) = <<"function">> \o Tail(d)
        /\ (DeclaredAt(source, d, Repeat(" ", 4), class_line)
               /\ Lines(source)[1] = class_line)
               => LastLine(output) = Repeat(" ", 4) \o Tail(Tail(d))

\* C8: a function declaration on a line without indentation, also under
\* blank lines, becomes function name(...) {, and on a line indented by 4
\* spaces in a class body the bare method name(...) {.
C8_ByOwnIndentation ==
    /\ Returned("transpile") => ByOwnIndentation("run", <<"model", " ", "A", " ", "{">>)
    /\ Returned("transpile_core")
           => ByOwnIndentation("feels", <<"bigbrain", " ", "A", " ", "{">>)

\* the phrases and the canonical forms C9 names
Phrases == {
    [phrase |-> <<"run", " ", "later", " ", "f", "(", ")", " ", "{">>,
     top    |-> <<"async", " ", "function", " ", "f", "(", ")", " ", "{">>,
     method |-> <<"async", " ", "f", "(", ")", " ", "{">>],
    [phrase |-> <<"run", " ", "forever", " ", "f", "(", ")", " ", "{">>,
     top    |-> <<"static", " ", "f", "(", ")", " ", "{">>,
     method |-> <<"static", " ", "f", "(", ")", " ", "{">>],
    [phrase |-> <<"share", " ", "default", " ", "run", " ", "f", "(", ")", " ", "{">>,
     top    |-> <<"export", " ", "default", " ", "function", " ", "f", "(", ")", " ", "{">>,
     method |-> <<"export", " ", "default", " ", "function", " ", "f", "(", ")", " ", "{">>] }

\* C9: a phrase is rewritten to its canonical form as a unit, at top level
\* and indented.
C9_PhraseAsUnit ==
    Returned("transpile") =>
        \A p \in Phrases :
            /\ LastLine(source) = p.phrase => LastLine(output) = p.top
            /\ LastLine(source) = Repeat(" ", 4) \o p.phrase
                   => LastLine(output) = Repeat(" ", 4) \o p.method

\* C10: transpile returns the same string on every call on a source,
\* whatever the order in which the table is iterated.
C10_SameOnEveryCall ==
    (Returned("transpile_core") /\ calls >= 2) => output = previous

(***************************************************************************)
(* States in which the case of each property arises                        *)
(***************************************************************************)
\* C1: validate_syntax of mod.rs has rejected a source for its const line,
\* naming const
C1_ConstRejected ==
    /\ Returned("validate_syntax") /\ HasConstLine(source)
    /\ verdict.check = "line" /\ verdict.token = <<"const">>

\* C2: a reserved name declared on the second line, under a clean first
\* line, has been rejected with the reserved-keyword error
C2_ReservedOnSecondLine ==
    /\ Returned("validate_syntax") /\ NoComments(source)
    /\ Len(Lines(source)) = 2
    /\ AloneOk(Lines(source)[1]) /\ DeclaresReserved(Lines(source)[2])
    /\ verdict.check = "reserved"

\* C3: a violation on the second line has been reported with line 2
C3_SecondLineReported ==
    /\ Returned("validate_syntax") /\ NoComments(source)
    /\ ~verdict.ok /\ verdict.line = 2 /\ FirstForbiddenLine(source) = 2

\* C4: a source whose block comment holds a line that fails on its own has
\* passed
C4_CommentedLinePassed ==
    /\ Returned("validate_syntax") /\ verdict.ok
    /\ \E k \in DOMAIN Lines(source) :
           InsideBlockComment(Lines(source), k) /\ ~AloneOk(Lines(source)[k])

C6_AliasRewritten ==
    /\ Returned("transpile_core")
    /\ \E e \in get_all_keywords : source = e[1] /\ e[1] # e[2] /\ output = e[2]

\* C7: a canonical source with a canonical keyword has come back unchanged
C7_CanonicalKept ==
    /\ Returned("transpile") /\ AlreadyCanonical(source, KEYWORDS)
    /\ "const" \in Words(source) /\ output = source

\* C8: a declaration indented by 4 spaces under the opening line of a class
\* has become the bare method
C8_MethodInClass ==
    /\ Returned("transpile")
    /\ \E d \in Declarations("run") :
           /\ DeclaredAt(source, d, Repeat(" ", 4), <<"model", " ", "A", " ", "{">>)
           /\ Lines(source)[1] = <<"model", " ", "A", " ", "{">>
           /\ LastLine(output) = Repeat(" ", 4) \o Tail(Tail(d))

\* C9: a top-level phrase has become its canonical form
C9_TopLevelPhrase ==
    /\ Returned("transpile")
    /\ \E p \in Phrases : LastLine(source) = p.phrase /\ LastLine(output) = p.top

\* C10: two calls on a source in which two aliases occur have returned the
\* same string
C10_TwoCallsAgree ==
    /\ Returned("transpile_core") /\ calls = 2
    /\ Cardinality(occurring(get_all_keywords, source)) >= 2
    /\ output = previous

Apart(txt, i) == ~IsWordAt(txt, i - 1) /\ ~IsWordAt(txt, i + 1)

\* C13: what reverse_transpile returns holds no === and no !==, and every
\* is and isnt in it stands apart from the identifiers around it
C13_StrictOperatorsApart ==
    Returned("reverse_transpile") =>
        /\ ~Contains(output, <<"=", "=", "=">>)
        /\ ~Contains(output, <<"!", "=", "=">>)
        /\ \A i \in DOMAIN output : output[i] \in {"is", "isnt"} => Apart(output, i)

\* an === with spaces around it came back as is between its operands
C13_SpacedOperatorRewritten ==
    /\ Returned("reverse_transpile")
    /\ Contains(source, <<"a", " ", "=", "=", "=", " ", "b">>)
    /\ Contains(output, <<"a", " ", "is", " ", "b">>)

\* C14: what comes back from transpile and reverse_transpile of a source
\* that validate_syntax accepts is accepted again, and has between a tenth
\* of and ten times as many lines as the source
C14_RoundTripAccepted ==
    Returned("round_trip") =>
        /\ verdict.ok
        /\ Len(Lines(output)) <= 10 * Len(Lines(source))
        /\ Len(Lines(source)) <= 10 * Len(Lines(output))

\* a source came back changed and was accepted
C14_RoundTripDone ==
    /\ Returned("round_trip") /\ verdict.ok
    /\ previous # source /\ output # previous

\* the var declarations of a text: var, a space, a name
VarDeclarations(txt) ==
    {i \in DOMAIN txt : MatchAt(<<WB, Lit("var"), Lit(" "), Id>>, txt, i).ok}

\* the text holds == or != that is no part of === or !==
LooseEquality(txt) ==
    \E i \in DOMAIN txt :
        /\ i + 1 <= Len(txt) /\ txt[i + 1] = "="
        /\ (i + 2 <= Len(txt) => txt[i + 2] # "=")
        /\ \/ txt[i] = "!"
           \/ txt[i] = "=" /\ (i > 1 => txt[i - 1] \notin {"=", "!"})

C16_ConfidenceFallsPerCategory ==
    Returned("analyze_conversion_quality") =>
        /\ report.conversion_confidence \in 0..100
        /\ report.conversion_confidence = 95
               <=> Len(report.issues) + Len(report.warnings) = 0
        /\ Len(report.issues) = 0 /\ Len(report.warnings) = 2 =>
               report.conversion_confidence < conversion_confidence(<<>>, <<"var">>)
        /\ Len(report.issues) = 1 =>
               report.conversion_confidence
                   < conversion_confidence(<<>>, <<"loose equality", "var">>)

\* a report with one warning has been made
C16_OneWarningScored ==
    /\ Returned("analyze_conversion_quality")
    /\ Len(report.issues) = 0 /\ Len(report.warnings) = 1
    /\ report.conversion_confidence = 85

\* C19: in the table get_all_keywords builds, every canonical token is the
\* target of one alias at most: when transpile_core has turned an alias into
\* its canonical token, no other alias of the table has that token
C19_OneAliasPerToken ==
    Returned("transpile_core") =>
        \A e \in get_all_keywords : source = e[1] /\ output = e[2] =>
            \A other \in get_all_keywords : other[2] = e[2] => other[1] = e[1]

\* oops has become try, the token oop becomes too
C19_TwoAliasesOfTry ==
    /\ Returned("transpile_core")
    /\ source = <<"oops">> /\ output = <<"try">>
    /\ << <<"oop">>, <<"try">> >> \in get_all_keywords

\* the file has been written by the command running, not left by an earlier one
Fresh(path) == path \in DOMAIN files /\ files[path] # Stale

\* the .ns files a command works on
Inputs(k) ==
    IF k.command = "build_directory" THEN InputFiles ELSE {k.path} \cap InputFiles

\* C17: in the build and run commands an output file is written only after
\* validate_syntax and transpile returned Ok for the source of its .ns file,
\* and it holds what transpile returned; a command that returned the error of
\* one of them has left the output of that file unwritten
C17_WrittenAfterBothOk ==
    \A t \in DOMAIN tasks :
        /\ \A ns \in Inputs(tasks[t]) :
               Fresh(output_path(tasks[t].command, ns)) =>
                   /\ validate_syntax(files[ns]).ok /\ transpile_compiled
                   /\ files[output_path(tasks[t].command, ns)] = transpile(files[ns])
                   /\ tasks[t].ns_path = ns => tasks[t].pc \in {"walk", "execute", "returned"}
        /\ tasks[t].pc = "returned" /\ ~tasks[t].result.ok /\ tasks[t].ns_path \in InputFiles =>
               /\ tasks[t].result = validate_syntax(files[tasks[t].ns_path])
               /\ ~Fresh(tasks[t].js_path)

\* a directory has been built in which one file was written and the next
\* was rejected by validate_syntax
C17_OneWrittenOneRejected ==
    \E t \in DOMAIN tasks :
        /\ tasks[t].command = "build_directory" /\ tasks[t].pc = "returned"
        /\ ~tasks[t].result.ok /\ Len(tasks[t].outputs) = 1
        /\ Fresh(tasks[t].outputs[1]) /\ tasks[t].js_path \notin DOMAIN files

\* what transpile_to_js emits for a source when it runs alone
emitted_alone(src) ==
    {tsc_emit(transpile_core(src, function_order, all_keywords)) :
         all_keywords \in IterationOrders(occurring(get_all_keywords, src))}

\* C20: two transpile_to_js calls running at the same time on different .ns
\* files each finish with their own result at their own output path: a call
\* on a valid source returns Ok with what tsc emits for that source at its
\* js_path, a call on a rejected source returns the error of validate_syntax
\* and writes no output, where the output directory can be made
C20_ParallelCallsOwnResult ==
    \A t \in DOMAIN tasks :
        tasks[t].pc = "returned" /\ ~not_a_directory(files, parent(tasks[t].js_path)) =>
            IF validate_syntax_core(files[tasks[t].ns_path]).ok
            THEN /\ tasks[t].result = Ok
                 /\ tasks[t].js_path \in DOMAIN files
                 /\ files[tasks[t].js_path] \in emitted_alone(files[tasks[t].ns_path])
            ELSE /\ tasks[t].result = validate_syntax_core(files[tasks[t].ns_path])
                 /\ tasks[t].js_path \notin DOMAIN files

\* both calls have returned, on two valid sources with different file stems:
\* one returned Ok, the other an error
C20_OneCallFailed ==
    /\ \A t \in DOMAIN tasks :
           /\ tasks[t].pc = "returned"
           /\ validate_syntax_core(files[tasks[t].ns_path]).ok
    /\ tasks[1].ns_path.stem # tasks[2].ns_path.stem
    /\ tasks[1].result = Ok /\ ~tasks[2].result.ok

\* the value a document gives for a field of a struct: by name in an object,
\* by position in an array
member(value, names, k) ==
    IF has_fields(value, names) THEN field(value, names, k) ELSE String("")

compilerOptions_of(document) == member(document, root_fields, 1)

reports_of(document) == member(compilerOptions_of(document), compiler_fields, 3)

\* the keys outside the schema at the root, in compilerOptions and in its
\* reports
keys_outside_schema(document) ==
    unknown_keys(document, {"compilerOptions", "include", "exclude"})
    \cup unknown_keys(compilerOptions_of(document), {"rootDir", "outDir", "reports"})
    \cup unknown_keys(reports_of(document), {"dir", "defaultFormat"})

\* C21: validate_json rejects every document with a key outside the schema at
\* the root, in compilerOptions or in its reports with an error naming such a
\* key, rejects a defaultFormat outside html, json and text, and gives the
\* default configuration back for the JSON to_pretty_json makes of it
C21_StrictSchema ==
    Returned("validate_json") =>
        /\ keys_outside_schema(source) # {} =>
               ~verdict.ok /\ verdict.token \in keys_outside_schema(source)
        /\ is_string(member(reports_of(source), reports_fields, 2))
               /\ member(reports_of(source), reports_fields, 2).v \notin supported_formats =>
               ~verdict.ok
        /\ source = to_pretty_json(default_config) =>
               verdict.ok /\ output = default_config

\* a document whose compilerOptions is the array of its fields, with a key
\* outside the schema in its reports, has been accepted
C21_ExtraKeyAccepted ==
    /\ Returned("validate_json") /\ verdict.ok
    /\ source.t = "object" /\ compilerOptions_of(source).t = "array"
    /\ "extraField" \in keys_outside_schema(source)
    /\ output = default_config

\* the output paths of the .ns files in an order of traversal
outputs_of(entries) ==
    [i \in DOMAIN entries |->
        join(output_dir, with_extension(strip_prefix(entries[i], input_dir), "js"))]

C23_NoOutputOfRejectedSource ==
    [][\A path \in WatchFiles :
           /\ watch_output_path(path) \in DOMAIN files'
           /\ watch_output_path(path) \in DOMAIN files =>
                  files'[watch_output_path(path)] # files[watch_output_path(path)]
           => path \in DOMAIN files /\ validate_syntax(files[path]).ok]_vars

\* the watcher has written dist/a.js for a src/a.ns that validate_syntax
\* rejects
C23_WatcherWroteRejected ==
    /\ watcher.change_receiver = <<>>
    /\ PathBuf(<<"src">>, "a", "ns") \in DOMAIN files
    /\ ~validate_syntax(files[PathBuf(<<"src">>, "a", "ns")]).ok
    /\ PathBuf(<<"dist">>, "a", "js") \in DOMAIN files
    /\ files[PathBuf(<<"dist">>, "a", "js")] = transpiled[files[PathBuf(<<"src">>, "a", "ns")]]

\* C24: in watch mode the output written is in the end the one of what the
\* file holds in the end, for every watched file there is: no change is lost
\* to the debounce
C24_FinalContentTranspiled ==
    \A path \in WatchFiles :
        <>[](path \in DOMAIN files =>
                 /\ watch_output_path(path) \in DOMAIN files
                 /\ files[watch_output_path(path)] = transpiled[files[path]])

\* every change has been received, the debounce is over, and the output of
\* lib/b.ns is the one of what the file held before its last change
C24_ChangeLost ==
    /\ watcher.change_receiver = <<>> /\ calls = MaxChanges
    /\ \A path \in DOMAIN watcher.last_changes :
           watcher.last_changes[path] = debounce_timeout
    /\ PathBuf(<<"lib">>, "b", "ns") \in DOMAIN files
    /\ \E contents \in WatchSources \ {files[PathBuf(<<"lib">>, "b", "ns")]} :
           /\ PathBuf(<<"lib">>, "b", "js") \in DOMAIN files
           /\ files[PathBuf(<<"lib">>, "b", "js")] = transpiled[contents]
           /\ transpiled[contents] # transpiled[files[PathBuf(<<"lib">>, "b", "ns")]]

\* C25: transpile_to_js removes the temporary directory before it returns, on
\* every exit path: no call returns and leaves nullscript-temp behind
C25_TempDirRemovedOnReturn ==
    [][\A t \in DOMAIN tasks :
           tasks[t].pc # "returned" /\ tasks'[t].pc = "returned" => temp_dir \notin dirs']_vars

\* a call has returned the Err of making its output directory while the other
\* call has not begun: the temporary directory is there with its .ts, its .js
\* and tsconfig.json
C25_TempDirLeft ==
    /\ tasks[1].pc = "returned" /\ tasks[1].result = IoError
    /\ tasks[2].pc = "create_temp"
    /\ temp_dir \in dirs
    /\ {temp_ts_path(tasks[1].ns_path), temp_js_path(tasks[1].ns_path), tsconfig_path}
           \subseteq DOMAIN files

\* the text after the passes in front of the method pass: the function,
\* static method, class and constructor passes among them
before_method_pass(js_content) == ApplyAll(SubSeq(passes_before_map, 1, 7), js_content, 1)

\* C26: reverse_transpile rewrites each construct once: function g(a) { has
\* become run g(a) { with a single run, what the function, static method and
\* constructor passes made is left as it is by the method pass, and no
\* whatever, when, since or grab of a header has a run in front
C26_RewrittenOnce ==
    Returned("reverse_transpile") =>
        /\ source = <<"function", " ", "g", "(", "a", ")", " ", "{">> =>
               output = <<"run", " ", "g", "(", "a", ")", " ", "{">>
        /\ ~Contains(output, <<"run", " ", "run">>)
        /\ (\E made \in {"function", "static", "constructor"} : Contains(source, <<made>>)) =>
               Apply(method_regex, before_method_pass(source)) = before_method_pass(source)
        /\ \A header \in {"whatever", "when", "since", "grab"} :
               ~Contains(output, <<"run", " ", header>>)

\* an indented constructor(a) { has been reverse transpiled after the opening
\* line of a class: the method pass has matched the __init__(a) { the
\* constructor pass made, with the line break and the indentation before it
C26_ConstructorMatchedAgain ==
    /\ Returned("reverse_transpile")
    /\ source = <<"class", " ", "A", " ", "{", "\n"," ", " ", " ", " ",
                  "constructor", "(", "a", ")", " ", "{">>
    /\ before_method_pass(source) = <<"model", " ", "A", " ", "{", "\n"," ", " ", " ", " ",
                                      "__init__", "(", "a", ")", " ", "{">>
    /\ output = <<"model", " ", "A", " ", "{", " ", "__init__", "(", "a", ")", " ", "{">>

\* the spaces a line begins with
RECURSIVE leading_spaces(_)
leading_spaces(line) ==
    IF line # <<>> /\ Head(line) = " " THEN 1 + leading_spaces(Tail(line)) ELSE 0

\* C27: reverse_transpile leaves the leading whitespace of every line as it
\* is: the output has the lines of the source, each beginning with as many
\* spaces, so a class member indented by four spaces or more stays so
C27_LeadingWhitespaceKept ==
    Returned("reverse_transpile") =>
        /\ Len(Lines(output)) = Len(Lines(source))
        /\ \A i \in DOMAIN Lines(source) :
               leading_spaces(Lines(output)[i]) = leading_spaces(Lines(source)[i])

\* a method indented by four spaces has come back indented by one: the pass
\* over runs of spaces has taken the indentation
C27_IndentationCollapsed ==
    /\ Returned("reverse_transpile")
    /\ source = <<" ", " ", " ", " ", "static", " ", "f", "(", ")", " ", "{">>
    /\ output = <<" ", "run", " ", "forever", " ", "f", "(", ")", " ", "{">>

\* C28: transpile removes no line and adds none: the output has the lines of
\* the source, each beginning with as many spaces, and the indented statement
\* fixed x = 1; has become const x = 1; under the same indentation
C28_LinesKept ==
    Returned("transpile") /\ verdict.ok =>
        /\ Len(Lines(output)) = Len(Lines(source))
        /\ \A i \in DOMAIN Lines(source) :
               leading_spaces(Lines(output)[i]) = leading_spaces(Lines(source)[i])
        /\ source = Repeat(" ", 4) \o <<"fixed", " ", "x", " ", "=", " ", "1", ";">> =>
               output = Repeat(" ", 4) \o <<"const", " ", "x", " ", "=", " ", "1", ";">>

\* the statement fixed x = 1; indented by four spaces has been transpiled:
\* nothing is left of it
C28_StatementRemoved ==
    /\ Returned("transpile") /\ verdict.ok
    /\ source = Repeat(" ", 4) \o <<"fixed", " ", "x", " ", "=", " ", "1", ";">>
    /\ output = <<>>

\* the level of indentation of line k of a text: the lines ending in { in
\* front of it less the lines beginning with } down to it
RECURSIVE level_at(_, _)
level_at(ls, k) ==
    IF k = 0 THEN 0
    ELSE level_at(ls, k - 1)
         + (IF k > 1 /\ Trim(ls[k - 1]) # <<>> /\ Trim(ls[k - 1])[Len(Trim(ls[k - 1]))] = "{"
            THEN 1 ELSE 0)
         - (IF Trim(ls[k]) # <<>> /\ Head(Trim(ls[k])) = "}" /\ level_at(ls, k - 1)
                  + (IF k > 1 /\ Trim(ls[k - 1]) # <<>>
                           /\ Trim(ls[k - 1])[Len(Trim(ls[k - 1]))] = "{" THEN 1 ELSE 0) > 0
            THEN 1 ELSE 0)

\* C29: format_nullscript_code never panics and never takes the level of
\* indentation below zero: every line of the output is the trimmed line of
\* the source after four spaces for every level, where a line beginning
\* with } at level zero stays at level zero
C29_IndentNeverNegative ==
    Returned("format_nullscript_code") =>
        /\ verdict = Ok
        /\ Len(str_lines(output)) = Len(str_lines(source)) \/ Trim(LastLine(source)) = <<>>
        /\ \A k \in DOMAIN str_lines(output) :
               Trim(str_lines(source)[k]) # <<>> =>
                   str_lines(output)[k] = Repeat(" ", 4 * level_at(str_lines(source), k))
                                      \o Trim(str_lines(source)[k])

\* the text } has been formatted: the level went below zero and repeat
\* panicked
C29_PanicOnClosingBrace ==
    /\ Returned("format_nullscript_code")
    /\ source = <<"}">>
    /\ verdict = Panic

\* C30: for every line and column that pass the range checks of
\* handle_complete the position is an index of the text, at most the number
\* of its characters, and get_current_word returns
C30_PositionInText ==
    Returned("handle_complete") /\ verdict # InvalidInput =>
        /\ output <= Len(source.content)
        /\ verdict = Ok

\* the file holds the one character U+00E9 and the column is 3, one past the
\* two bytes of its line: the position is 2, the text has one character,
\* and get_current_word panicked
C30_PositionPastText ==
    /\ Returned("handle_complete")
    /\ source = [content |-> <<"U+00E9">>, line |-> 1, column |-> 3]
    /\ output = 2 /\ verdict = Panic

====
